---- MODULE Spec2Model ----
(***************************************************************************)
(* GPU dynamic (ordered) boosting: TDynamicBoosting::Run / CreateState /   *)
(* Fit / CreateFolds of catboost/cuda/methods/dynamic_boosting.h, with the *)
(* collaborators it drives (progress tracker, weak learner, data set       *)
(* holder) reduced to the contracts the loop relies on.                    *)
(*                                                                         *)
(* Numbers are integers: a buffer of floats is a function from row         *)
(* positions to Int, the learning rate is an integer factor, and a growth  *)
(* rate is a fraction <<num, den>>.                                        *)
(***************************************************************************)
EXTENDS Integers, Sequences, FiniteSets, TLC

VARIABLES
    \* ---- TDynamicBoosting::Run / Fit ----
    pc,                 \* position of the control thread
    cfg,                \* configuration and data providers of the run
    permutationFolds,   \* TBoostingState::PermutationFolds
    cursor,             \* TBoostingState::Cursor (FoldData, Estimation)
    testCursor,         \* TBoostingState::TestCursor, Null when Fit gets nullptr
    bestTestCursor,     \* TBoostingState::BestTestCursor, Null when not allocated
    result,             \* the result model: sequence of weak models
    weakModelStructure, \* structure chosen by this iteration's search
    learnPermutationId, \* permutation used by this iteration's search
    models,             \* TFoldAndPermutationStorage<TWeakModel> of the iteration
    iteration,          \* progress tracker: current iteration
    interruptRequested, \* external interruption signal
    snapshot,           \* last snapshot written through the progress tracker
    rng,                \* Random: the stream drawn so far and the position in it
    tracker,            \* calls received by the progress tracker
    added,              \* per cursor: number of weak models added to it
    completed,          \* number of fully completed iterations behind result
    uninterrupted,      \* the same training never interrupted (reference run)
    runs,               \* number of Run() calls so far
    restored,           \* weak models the last Run() restored from a snapshot
    estimator,          \* the estimator of the iteration: its tasks, its Estimate calls
    \* ---- CreateFolds as a function of its inputs ----
    foldIn,             \* inputs of the CreateFolds call under study
    foldPc,             \* position inside CreateFolds
    folds,              \* TVector<TFold> folds
    \* ---- CreateDataSet as a function of its inputs ----
    dsIn,               \* data provider and configuration of the call under study
    dsPc,               \* position inside CreateDataSet
    dsOut,              \* what CreateDataSet hands to the dataset builder
    dsState,            \* the sizes CreateState gives the per-permutation storage
    oracleIn,           \* depth of the structure of every destination model
    oracle,             \* TObliviousTreeLeavesEstimator: TaskHelpers, TaskSlices, WriteDst
    oraclePc,           \* position of the estimator's caller
    oracleOut,          \* destination models, the last PointDim() answer, the call history
    \* ---- MinEstimationSize as a function of its inputs ----
    policyIn,           \* docCount and Config.MinFoldSize of the call under study
    policyPc,           \* position of the call
    policyOut,          \* the value returned
    \* ---- CalcTrainSubsets as a function of its inputs ----
    subsetIn,           \* testSubsets and groupCount of the call under study
    subsetPc,           \* position inside CalcTrainSubsets
    subsetAt,           \* the test fold and the element its ForEach is at
    trainSubsetIndices, \* TVector<TVector<ui32>> trainSubsetIndices
    subsetOut,          \* the subsets returned
    \* ---- the batch loop of CrossValidate and its fold contexts ----
    cvIn,               \* iteration count, batch size, metrics and fold count
    cvPc,               \* position inside the batch loop
    cvBatch,            \* batchStartIteration, batchEndIteration, iteration, the stop flag
    cvFold,             \* the fold context TrainUpToIteration is called on
    trainer,            \* TrainModel: iterations done in this call, the last callback answer
    foldContexts        \* per fold: MetricValuesOnTrain, MetricValuesOnTest

loopVars == <<pc, cfg, permutationFolds, cursor, testCursor, bestTestCursor,
              result, weakModelStructure, learnPermutationId, models, iteration,
              interruptRequested, snapshot, rng, tracker, added, completed,
              uninterrupted, runs, restored, estimator>>
foldVars == <<foldIn, foldPc, folds>>
dataSetVars == <<dsIn, dsPc, dsOut, dsState>>
oracleVars == <<oracleIn, oracle, oraclePc, oracleOut>>
policyVars == <<policyIn, policyPc, policyOut>>
subsetVars == <<subsetIn, subsetPc, subsetAt, trainSubsetIndices, subsetOut>>
cvVars == <<cvIn, cvPc, cvBatch, cvFold, trainer, foldContexts>>
vars == <<loopVars, foldVars, dataSetVars, oracleVars, policyVars, subsetVars, cvVars>>
\* what a step of Run/Fit, of CreateFolds, of CreateDataSet leaves alone
outsideFit == <<foldVars, dataSetVars, oracleVars, policyVars, subsetVars,
                cvVars>>
outsideCreateFolds == <<loopVars, dataSetVars, oracleVars, policyVars, subsetVars,
                        cvVars>>
outsideCreateDataSet == <<loopVars, foldVars, oracleVars, policyVars, subsetVars,
                          cvVars>>
outsideOracle == <<loopVars, foldVars, dataSetVars, policyVars, subsetVars,
                   cvVars>>
outsidePolicy == <<loopVars, foldVars, dataSetVars, oracleVars, subsetVars,
                   cvVars>>
outsideCalcTrainSubsets == <<loopVars, foldVars, dataSetVars, oracleVars, policyVars,
                            cvVars>>
outsideCrossValidate == <<loopVars, foldVars, dataSetVars, oracleVars, policyVars,
                         subsetVars>>

(***************************************************************************)
(* Bounds of the model                                                     *)
(***************************************************************************)
\* learn rows of the training loop's pool
NumRows == 4
\* rows of the test pool
NumTestRows == 2
\* iteration budget of the progress tracker
MaxIterations == 2
\* Run() calls: the first start and the restarts after it
MaxRuns == 2
\* largest dataSet.PermutationsCount()
MaxPermutations == 3
\* Random.NextUniformL() yields 0..MaxRandom
MaxRandom == 1
\* largest sampleCount given to CreateFolds on its own
MaxSamples == 8
\* largest device count given to CreateFolds on its own
MaxDevices == 2
\* cap on the folds built by the CreateFolds loop
MaxFolds == 20
\* largest Config.PermutationCount given to CreateDataSet on its own
MaxConfigPermutations == 4
\* destination models an estimator is given tasks for
MaxTasks == 3
\* largest depth of a destination model's structure
MaxDepth == 2

\* largest groupCount given to CalcTrainSubsets on its own
MaxGroups == 4
\* largest number of test subsets given to CalcTrainSubsets on its own
MaxTestFolds == 3

\* largest IterationCount of a cross-validation
MaxCvIterations == 4
\* largest cvParams.IterationsBatchSize
MaxBatchSize == 3
\* largest cvParams.FoldCount
MaxCvFolds == 2

\* an absent buffer (nullptr / empty holder)
Null == [i \in {-1} |-> 0]

Min(a, b) == IF a < b THEN a ELSE b
Max(a, b) == IF a > b THEN a ELSE b

\* sum of f over the positions 0..n-1
RECURSIVE SumTo(_, _)
SumTo(f, n) == IF n = 0 THEN 0 ELSE f[n - 1] + SumTo(f, n - 1)

\* sum of the elements lo..hi of a sequence of integers, by halves
RECURSIVE SumRange(_, _, _)
SumRange(s, lo, hi) ==
    IF lo > hi THEN 0
    ELSE IF lo = hi THEN s[lo]
    ELSE LET mid == (lo + hi) \div 2
         IN  SumRange(s, lo, mid) + SumRange(s, mid + 1, hi)

\* sum of the first n elements of a sequence of integers
SumFirst(s, n) == SumRange(s, 1, n)

\* sum of a sequence of integers
SumSeq(s) == SumFirst(s, Len(s))

(***************************************************************************)
(* TSlice and IQueriesGrouping                                             *)
(***************************************************************************)
TSlice(left, right) == [Left |-> left, Right |-> right]

\* a grouping is the sequence of its group sizes
GetQueryCount(grouping) == Len(grouping)

GetQueryOffset(grouping, id) == SumFirst(grouping, Min(id, Len(grouping)))

GroupOffsets(grouping) == {GetQueryOffset(grouping, i) : i \in 0..Len(grouping)}

\* the smallest group id in lo..hi whose offset is at or after the line, the
\* offset of hi being so (offsets grow with the id)
RECURSIVE FirstGroupAtOrAfter(_, _, _, _)
FirstGroupAtOrAfter(grouping, line, lo, hi) ==
    IF lo = hi THEN lo
    ELSE LET mid == (lo + hi) \div 2
         IN  IF GetQueryOffset(grouping, mid) >= line
             THEN FirstGroupAtOrAfter(grouping, line, lo, mid)
             ELSE FirstGroupAtOrAfter(grouping, line, mid + 1, hi)

\* the line rounded up to the next group boundary, the end of the last group
\* when there is none
NextQueryOffsetForLine(grouping, line) ==
    IF SumSeq(grouping) < line THEN SumSeq(grouping)
    ELSE GetQueryOffset(grouping, FirstGroupAtOrAfter(grouping, line, 0, Len(grouping)))

\* every row its own group
WithoutQueriesGrouping(docCount) == [i \in 1..docCount |-> 1]

(***************************************************************************)
(* MinEstimationSize                                                       *)
(***************************************************************************)
CeilDivide(x, y) == (x + y - 1) \div y

RECURSIVE IntLog2(_)
IntLog2(x) == IF x <= 1 THEN 0 ELSE 1 + IntLog2(x \div 2)

RECURSIVE Pow2(_)
Pow2(n) == IF n = 0 THEN 1 ELSE 2 * Pow2(n - 1)

\* lines 154-164 without the small-pool branch of lines 155-157
MinEstimationSizeWithoutSmallPools(docCount, minFoldSize) ==
    LET maxFolds == 18
        nfolds == IntLog2(CeilDivide(docCount, minFoldSize))
    IN  IF nfolds >= maxFolds THEN CeilDivide(docCount, Pow2(maxFolds))
        ELSE Min(minFoldSize, docCount \div 50)

\* lines 154-164 without the docCount / 50 bound of line 163
MinEstimationSizeUpToMinFoldSize(docCount, minFoldSize) ==
    IF docCount < 500 THEN 1
    ELSE LET maxFolds == 18
             nfolds == IntLog2(CeilDivide(docCount, minFoldSize))
         IN  IF nfolds >= maxFolds THEN CeilDivide(docCount, Pow2(maxFolds))
             ELSE minFoldSize

\* lines 154-164
MinEstimationSize(docCount, minFoldSize) ==
    IF docCount < 500 THEN 1
    ELSE LET maxFolds == 18
             nfolds == IntLog2(CeilDivide(docCount, minFoldSize))
         IN  IF nfolds >= maxFolds THEN CeilDivide(docCount, Pow2(maxFolds))
             ELSE Min(minFoldSize, docCount \div 50)

(***************************************************************************)
(* CreateFolds                                                             *)
(***************************************************************************)
\* static_cast<ui32>(x * growthRate)
Grow(x, growthRate) == (x * growthRate[1]) \div growthRate[2]

TFold(estimate, evaluate) ==
    [EstimateSamples |-> estimate, QualityEvaluateSamples |-> evaluate]

\* line 169 alone: the device branch of lines 172-176 left out
FoldMinEstimationSizeOnOneDevice(in) ==
    NextQueryOffsetForLine(in.grouping,
        MinEstimationSize(in.sampleCount, in.minFoldSize))

\* lines 169-176
FoldMinEstimationSize(in) ==
    LET base == NextQueryOffsetForLine(in.grouping,
                    MinEstimationSize(in.sampleCount, in.minFoldSize))
    IN  IF in.devCount > 1
        THEN Max(base, GetQueryOffset(in.grouping,
                          Min(16 * in.devCount, GetQueryCount(in.grouping) \div 2)))
        ELSE base

\* lines 178-179 without the CB_ENSURE of line 180
FoldChecksPassWithoutGrowthCheck(in) ==
    /\ GetQueryCount(in.grouping) >= 4 * in.devCount
    /\ FoldMinEstimationSize(in) # 0

\* the three CB_ENSURE of lines 178-180
FoldChecksPass(in) ==
    /\ GetQueryCount(in.grouping) >= 4 * in.devCount
    /\ FoldMinEstimationSize(in) # 0
    /\ in.growthRate[1] > in.growthRate[2]

\* lines 189-192 taken in Plain mode too (the Plain branch left out)
PlainFoldsSeeded(in) ==
    LET minEstimationSize == NextQueryOffsetForLine(in.grouping,
                                 MinEstimationSize(in.sampleCount, in.minFoldSize))
    IN  <<TFold(TSlice(0, minEstimationSize), TSlice(minEstimationSize, in.sampleCount))>>

\* lines 183-187
PlainFolds(in) == <<TFold(TSlice(0, in.sampleCount), TSlice(0, in.sampleCount))>>

\* lines 189-192 with the policy size of MinEstimationSize used as it is,
\* not moved to a group boundary
SeedFoldUnaligned(in) ==
    LET minEstimationSize == MinEstimationSize(in.sampleCount, in.minFoldSize)
        testEnd == NextQueryOffsetForLine(in.grouping,
                       Min(Grow(minEstimationSize, in.growthRate), in.sampleCount))
    IN  TFold(TSlice(0, minEstimationSize), TSlice(minEstimationSize, testEnd))

\* lines 189-192
SeedFold(in) ==
    LET minEstimationSize == FoldMinEstimationSize(in)
        testEnd == NextQueryOffsetForLine(in.grouping,
                       Min(Grow(minEstimationSize, in.growthRate), in.sampleCount))
    IN  TFold(TSlice(0, minEstimationSize), TSlice(minEstimationSize, testEnd))

\* lines 195-199 with the end neither clamped to sampleCount nor aligned
NextFoldUnclamped(in, fs) ==
    LET back == fs[Len(fs)].QualityEvaluateSamples.Right
    IN  TFold(TSlice(0, back), TSlice(back, Grow(back, in.growthRate)))

\* lines 195-199 with the learn slice taken from the previous estimate slice
NextFoldKeepingEstimate(in, fs) ==
    LET back == fs[Len(fs)].QualityEvaluateSamples.Right
        end  == NextQueryOffsetForLine(in.grouping,
                    Min(Grow(back, in.growthRate), in.sampleCount))
    IN  TFold(fs[Len(fs)].EstimateSamples, TSlice(back, end))

\* lines 195-199: the fold pushed by one pass of the while loop
NextFold(in, fs) ==
    LET back == fs[Len(fs)].QualityEvaluateSamples.Right
        end  == NextQueryOffsetForLine(in.grouping,
                    Min(Grow(back, in.growthRate), in.sampleCount))
    IN  TFold(TSlice(0, back), TSlice(back, end))

\* line 194
FoldLoopContinues(in, fs) == fs[Len(fs)].QualityEvaluateSamples.Right < in.sampleCount

RECURSIVE FoldLoop(_, _, _)
FoldLoop(in, fs, fuel) ==
    IF fuel = 0 \/ ~FoldLoopContinues(in, fs) THEN fs
    ELSE FoldLoop(in, Append(fs, NextFold(in, fs)), fuel - 1)

\* the folds CreateFolds returns (for inputs that pass its checks)
CreateFolds(in) ==
    IF in.plain THEN PlainFolds(in)
    ELSE FoldLoop(in, <<SeedFold(in)>>, MaxFolds)

(***************************************************************************)
(* Data sets, permutations and targets of the training loop                *)
(***************************************************************************)
Rows == 0..(NumRows - 1)
TestRows == 0..(NumTestRows - 1)
RandomValues == 0..MaxRandom
Leaves == 0..1

\* target of a learn row
Label(row) == row + 2

\* GetBaseline(DataProvider->TargetData)[0], or zero without a baseline column
Baseline(c, row) == IF c.hasBaseline THEN 1 ELSE 0

\* GetBaseline(TestDataProvider->TargetData)[0], or zero
TestBaseline(c, row) == IF c.hasBaseline THEN 1 ELSE 0

\* line 229 / line 536
EstimationPermutation(c) == c.permutationCount - 1

\* line 230 / lines 537-538
LearnPermutationCount(c) ==
    IF EstimationPermutation(c) # 0 THEN c.permutationCount - 1 ELSE 1

LearnPermutations(c) == 0..(LearnPermutationCount(c) - 1)

\* row order of permutation p: position -> row; the estimation permutation is
\* the identity
GetPermutation(c, p) ==
    [pos \in Rows |-> IF p = EstimationPermutation(c) THEN pos
                      ELSE (pos + p + 1) % NumRows]

\* the leaf of a row under a weak model structure (a split threshold)
Bin(structure, row) == IF row < structure THEN 0 ELSE 1

TWeakModel(structure) == [structure |-> structure, values |-> [l \in Leaves |-> 0]]

\* the value a weak model adds to a row
Apply(model, row) == model.values[Bin(model.structure, row)]

(***************************************************************************)
(* CreateDataSet                                                           *)
(***************************************************************************)
\* lines 111-113: halve while the 32-bit product suggestedBlockSize * 128
\* exceeds sampleCount; (b * 128) mod 2^32 = (b mod 2^25) * 128
RECURSIVE HalveBlockSize(_, _)
HalveBlockSize(suggestedBlockSize, sampleCount) ==
    IF (suggestedBlockSize % Pow2(25)) > sampleCount \div 128
    THEN HalveBlockSize(suggestedBlockSize \div 2, sampleCount)
    ELSE suggestedBlockSize

\* lines 104-116 without the rounding of line 110
GetPermutationBlockSizeUnrounded(sampleCount, configured) ==
    IF sampleCount < 50000 THEN 1
    ELSE IF configured > 1
         THEN HalveBlockSize(configured, sampleCount)
         ELSE configured

\* lines 104-116
GetPermutationBlockSize(sampleCount, configured) ==
    IF sampleCount < 50000 THEN 1
    ELSE IF configured > 1
         THEN HalveBlockSize(Pow2(IntLog2(configured)), sampleCount)
         ELSE configured

\* lines 130-133 with the configured count requested whatever the row order
RequestedPermutationCountIgnoringOrder(order, configured) == configured

\* lines 130-133
RequestedPermutationCount(order, configured) ==
    IF order = "Ordered" THEN 1 ELSE configured

\* lines 118-135: what BuildDataSet is called with
BuiltDataSet(in) ==
    [built |-> TRUE,
     permutationBlockSize |-> GetPermutationBlockSize(in.objectCount, in.permutationBlockSize),
     permutationCount |-> RequestedPermutationCount(in.order, in.permutationCount)]

NoDataSet == [built |-> FALSE, permutationBlockSize |-> 0, permutationCount |-> 0]

(***************************************************************************)
(* The ui32 arithmetic of CreateState                                      *)
(***************************************************************************)
\* a ui32 as two 16-bit halves, value hi * 2^16 + lo
UI32(n) == [hi |-> n \div Pow2(16), lo |-> n % Pow2(16)]

\* x - 1 in ui32: 0 - 1 wraps to 2^32 - 1
UI32MinusOne(x) ==
    IF x.lo > 0 THEN [x EXCEPT !.lo = @ - 1]
    ELSE IF x.hi > 0 THEN [hi |-> x.hi - 1, lo |-> Pow2(16) - 1]
    ELSE [hi |-> Pow2(16) - 1, lo |-> Pow2(16) - 1]

UI32Less(x, y) == x.hi < y.hi \/ (x.hi = y.hi /\ x.lo < y.lo)

\* line 536
StateEstimationPermutation(permutationsCount) == UI32MinusOne(UI32(permutationsCount))

\* lines 537-538
StateLearnPermutationCount(permutationsCount) ==
    IF StateEstimationPermutation(permutationsCount) # UI32(0)
    THEN StateEstimationPermutation(permutationsCount)
    ELSE UI32(1)

\* CreateState has sized nothing
NoStateSizes == [sized |-> FALSE, permutationFolds |-> UI32(0), foldData |-> UI32(0)]

(***************************************************************************)
(* CreateState                                                             *)
(***************************************************************************)
\* the CreateFolds call of lines 553-555
StateFoldInput(c) ==
    [sampleCount |-> NumRows, growthRate |-> c.growthRate,
     grouping |-> WithoutQueriesGrouping(NumRows), devCount |-> 1,
     minFoldSize |-> c.minFoldSize, plain |-> c.plain]

\* lines 539, 553-555 with the folds built for every permutation of the data
\* set, the estimation permutation included
StatePermutationFoldsOfEveryPermutation(c) ==
    [p \in 0..(c.permutationCount - 1) |-> CreateFolds(StateFoldInput(c))]

\* lines 539, 553-555
StatePermutationFolds(c) ==
    [p \in LearnPermutations(c) |-> CreateFolds(StateFoldInput(c))]

\* lines 541-577 with every fold cursor mapped over all the rows
StateCursorOverAllRows(c, pf) ==
    [FoldData |->
        [p \in LearnPermutations(c) |->
            [f \in 1..Len(pf[p]) |->
                [pos \in Rows |-> Baseline(c, GetPermutation(c, p)[pos])]]],
     Estimation |->
        [pos \in Rows |-> Baseline(c, GetPermutation(c, EstimationPermutation(c))[pos])]]

\* lines 541-577 with the estimation cursor zero-filled whatever the baseline
StateCursorWithoutEstimationBaseline(c, pf) ==
    [FoldData |->
        [p \in LearnPermutations(c) |->
            [f \in 1..Len(pf[p]) |->
                [pos \in 0..(pf[p][f].QualityEvaluateSamples.Right - 1) |->
                    Baseline(c, GetPermutation(c, p)[pos])]]],
     Estimation |-> [pos \in Rows |-> 0]]

\* lines 541-577
StateCursor(c, pf) ==
    [FoldData |->
        [p \in LearnPermutations(c) |->
            [f \in 1..Len(pf[p]) |->
                [pos \in 0..(pf[p][f].QualityEvaluateSamples.Right - 1) |->
                    Baseline(c, GetPermutation(c, p)[pos])]]],
     Estimation |->
        [pos \in Rows |-> Baseline(c, GetPermutation(c, EstimationPermutation(c))[pos])]]

\* lines 526-534; Fit receives nullptr without a test data provider (line 612)
StateTestCursor(c) ==
    IF c.hasTest THEN [r \in TestRows |-> TestBaseline(c, r)] ELSE Null

\* lines 588-591: Reset to the mapping of state->TestCursor, which is empty
\* when CreateState did not build it
StateBestTestCursor(c) ==
    IF c.needBest
    THEN (IF c.hasTest THEN [r \in TestRows |-> 0] ELSE <<>>)
    ELSE Null

(***************************************************************************)
(* One iteration of Fit, phase by phase                                    *)
(***************************************************************************)
\* lines 262-265
PickLearnPermutation(c, r) ==
    IF LearnPermutationCount(c) > 1 THEN r % (LearnPermutationCount(c) - 1) ELSE 0

\* draws of Random taken by one structure search
DrawsPerIteration(c) == IF LearnPermutationCount(c) > 1 THEN 2 ELSE 1

\* sum of the values of a buffer
BufferSum(buf) == SumTo(buf, Cardinality(DOMAIN buf))

\* lines 273-311: the optimizer sees the fold cursors of the chosen permutation,
\* the random strength of the iteration and its own random draw
SearchStructure(c, pf, cur, lpid, draw, iter) ==
    LET seen == IF c.plain THEN BufferSum(cur.FoldData[lpid][1])
                ELSE SumTo([i \in 0..(Len(pf[lpid]) - 1) |->
                                BufferSum(cur.FoldData[lpid][i + 1])], Len(pf[lpid]))
    IN  1 + ((draw + iter + seen) % (NumRows - 1))

\* one estimation task: per leaf, the sum of the residuals of the slice's rows
EstimateTask(c, structure, p, right, cur) ==
    [structure |-> structure,
     values |-> [l \in Leaves |->
        SumTo([pos \in 0..(right - 1) |->
                  IF Bin(structure, GetPermutation(c, p)[pos]) = l
                  THEN Label(GetPermutation(c, p)[pos]) - cur[pos] ELSE 0], right)]]

\* Weak.CreateEstimator() (line 353): an estimator with no task yet
NoEstimator == [tasks |-> {}, estimateCalls |-> 0, registered |-> {}]

\* line 353 with the estimator of the previous iteration kept
CreateEstimatorReused(previous) == previous

\* line 353: every iteration creates its own estimator
CreateEstimator(previous) == NoEstimator

\* lines 339-348: every model starts as the default model of the structure
DefaultModels(c, pf, structure) ==
    [FoldData |-> [p \in LearnPermutations(c) |->
                      [f \in 1..Len(pf[p]) |-> TWeakModel(structure)]],
     Estimation |-> TWeakModel(structure)]

\* SliceView(slice) of a buffer
SliceView(buf, slice) == [pos \in slice.Left..(slice.Right - 1) |-> buf[pos]]

\* lines 355-369 with the tasks bound to the whole range of the fold cursor
AddFoldEstimationTasksOnWholeFold(c, pf, cur) ==
    UNION {{[estimation |-> FALSE, permutation |-> p, fold |-> f,
             slice |-> TSlice(0, pf[p][f].QualityEvaluateSamples.Right),
             cursor |-> SliceView(cur.FoldData[p][f],
                                  TSlice(0, pf[p][f].QualityEvaluateSamples.Right))]
            : f \in 1..Len(pf[p])} : p \in LearnPermutations(c)}

\* lines 355-369: one AddEstimationTask per (learn permutation, fold)
AddFoldEstimationTasks(c, pf, cur) ==
    UNION {{[estimation |-> FALSE, permutation |-> p, fold |-> f,
             slice |-> pf[p][f].EstimateSamples,
             cursor |-> SliceView(cur.FoldData[p][f], pf[p][f].EstimateSamples)]
            : f \in 1..Len(pf[p])} : p \in LearnPermutations(c)}

\* lines 371-383: the task of the estimation permutation
AddEstimationPermutationTask(c, cur) ==
    IF ~(c.plain /\ EstimationPermutation(c) = 0)
    THEN {[estimation |-> TRUE, permutation |-> EstimationPermutation(c), fold |-> 0,
           slice |-> TSlice(0, NumRows), cursor |-> cur.Estimation]}
    ELSE {}

\* lines 355-383: the tasks registered with the estimator of an iteration
AddEstimationTasks(c, pf, cur) ==
    AddFoldEstimationTasks(c, pf, cur) \cup AddEstimationPermutationTask(c, cur)

\* estimator.Estimate (line 384): every registered task is estimated and
\* written to its destination model; a model without task keeps its value
EstimatorEstimate(c, structure, tasks, ms) ==
    LET Estimated(ts, old) ==
            IF ts = {} THEN old
            ELSE LET t == CHOOSE x \in ts : TRUE
                 IN  EstimateTask(c, structure, t.permutation, t.slice.Right, t.cursor)
    IN  [FoldData |->
            [p \in DOMAIN ms.FoldData |->
                [f \in DOMAIN ms.FoldData[p] |->
                    Estimated({t \in tasks : ~t.estimation /\ t.permutation = p /\ t.fold = f},
                              ms.FoldData[p][f])]],
         Estimation |-> Estimated({t \in tasks : t.estimation}, ms.Estimation)]

\* lines 339-385
EstimateModels(c, pf, cur, structure) ==
    EstimatorEstimate(c, structure, AddEstimationTasks(c, pf, cur),
                      DefaultModels(c, pf, structure))

\* TWeakModel::Rescale
Rescale(model, step) ==
    [model EXCEPT !.values = [l \in Leaves |-> model.values[l] * step]]

\* lines 387-389 with models.Estimation left out of the Foreach
RescaleModelsSkippingEstimation(c, ms) ==
    [FoldData |-> [p \in DOMAIN ms.FoldData |->
                      [f \in DOMAIN ms.FoldData[p] |->
                          Rescale(ms.FoldData[p][f], c.learningRate)]],
     Estimation |-> ms.Estimation]

\* lines 387-389
RescaleModels(c, ms) ==
    [FoldData |-> [p \in DOMAIN ms.FoldData |->
                      [f \in DOMAIN ms.FoldData[p] |->
                          Rescale(ms.FoldData[p][f], c.learningRate)]],
     Estimation |-> Rescale(ms.Estimation, c.learningRate)]

\* lines 392-394 left out
FallbackModelsSkipped(c, ms) == ms

\* lines 392-394
FallbackModels(c, ms) ==
    IF c.plain /\ EstimationPermutation(c) = 0
    THEN [ms EXCEPT !.Estimation = ms.FoldData[0][1]]
    ELSE ms

\* one addModelValue task: the model added to every row of the buffer
AddModelValue(c, model, p, buf) ==
    [pos \in DOMAIN buf |-> buf[pos] + Apply(model, GetPermutation(c, p)[pos])]

\* lines 412-437 without the task of lines 412-417
UpdateCursorSkippingEstimation(c, cur, ms) ==
    [FoldData |-> [p \in DOMAIN cur.FoldData |->
                      [f \in DOMAIN cur.FoldData[p] |->
                          AddModelValue(c, ms.FoldData[p][f], p, cur.FoldData[p][f])]],
     Estimation |-> cur.Estimation]

\* lines 412-437
UpdateCursor(c, cur, ms) ==
    [FoldData |-> [p \in DOMAIN cur.FoldData |->
                      [f \in DOMAIN cur.FoldData[p] |->
                          AddModelValue(c, ms.FoldData[p][f], p, cur.FoldData[p][f])]],
     Estimation |-> AddModelValue(c, ms.Estimation, EstimationPermutation(c),
                                  cur.Estimation)]

\* lines 403-410
UpdateTestCursor(tc, ms) ==
    IF tc = Null THEN Null
    ELSE [r \in DOMAIN tc |-> tc[r] + Apply(ms.Estimation, r)]

\* line 440 overwriting the last weak model instead of appending
AddWeakModelReplacing(res, model) ==
    IF res = <<>> THEN <<model>> ELSE [res EXCEPT ![Len(res)] = model]

\* line 440
AddWeakModel(res, model) == Append(res, model)

(***************************************************************************)
(* Snapshots                                                               *)
(***************************************************************************)
\* MakeProgress: the progress blob {result model, all cursors, test cursor}
MakeProgress(res, cur, tc) == [model |-> res, cursor |-> cur, testCursor |-> tc]

\* lines 241-247 with the SaveCudaBuffer of the best test cursor left out
SnapshotSaverWithoutBest(res, cur, tc, best) ==
    [progress |-> MakeProgress(res, cur, tc), buffers |-> <<>>]

\* lines 241-247, the writer given to MaybeSaveSnapshot: the progress blob,
\* then the buffer of the best test cursor if there is one
SnapshotSaver(res, cur, tc, best) ==
    [progress |-> MakeProgress(res, cur, tc),
     buffers |-> IF best # Null THEN <<best>> ELSE <<>>]

\* LoadCudaBuffer: the next buffer of the input read into dst; dst keeps its
\* content when the input has no buffer left
LoadCudaBuffer(buffers, dst) == IF Len(buffers) >= 1 THEN buffers[1] ELSE dst

\* lines 598-600: the number of buffers the reader loads after the blob
BuffersLoaded(st) == IF st.bestTestCursor # Null THEN 1 ELSE 0

\* WriteProgressToGpu: the blob written back into the model, the cursors and,
\* when a test cursor is passed, the test cursor
WriteProgressToGpu(progress, st, withTest) ==
    [st EXCEPT !.result = progress.model,
               !.cursor = progress.cursor,
               !.testCursor = IF withTest THEN progress.testCursor ELSE @]

\* lines 593-604 with the model of the blob not written to resultModel
RestoreCallbackKeepingModel(c, snap, st) ==
    [WriteProgressToGpu(snap.progress, st, c.hasTest) EXCEPT !.result = st.result]

\* lines 593-604 with the cursors of the blob not written to state->Cursor
RestoreCallbackKeepingCursor(c, snap, st) ==
    [WriteProgressToGpu(snap.progress, st, c.hasTest) EXCEPT !.cursor = st.cursor]

\* lines 593-604: the reader given to MaybeRestoreFromSnapshot
RestoreCallback(c, snap, st) ==
    LET loaded == IF BuffersLoaded(st) = 1
                  THEN [st EXCEPT !.bestTestCursor = LoadCudaBuffer(snap.buffers, @)]
                  ELSE st
    IN  WriteProgressToGpu(snap.progress, loaded, c.hasTest)

NoSnapshot ==
    [written |-> FALSE,
     data |-> SnapshotSaver(<<>>, [FoldData |-> <<>>, Estimation |-> <<>>], Null, Null),
     iteration |-> 0, rngPos |-> 0, completed |-> 0,
     added |-> [FoldData |-> <<>>, Estimation |-> 0, Test |-> 0],
     saved |-> [result |-> <<>>, cursor |-> [FoldData |-> <<>>, Estimation |-> <<>>],
                testCursor |-> Null, bestTestCursor |-> Null]]

\* what MaybeSaveSnapshot persists when its policy decides to save: the
\* writer's output and the tracker's own position
WrittenSnapshot ==
    [written |-> TRUE,
     data |-> SnapshotSaver(result, cursor, testCursor, bestTestCursor),
     iteration |-> iteration, rngPos |-> rng.pos, completed |-> completed,
     added |-> added,
     \* what the training state was when the writer ran
     saved |-> [result |-> result, cursor |-> cursor, testCursor |-> testCursor,
                bestTestCursor |-> bestTestCursor]]

(***************************************************************************)
(* The reference run: the same training, never interrupted                 *)
(***************************************************************************)
\* one whole iteration of Fit applied to the reference run
FitIteration(c, pf, u, log) ==
    LET lpid == IF LearnPermutationCount(c) > 1
                THEN PickLearnPermutation(c, log[u.rngPos + 1]) ELSE 0
        draw == log[u.rngPos + DrawsPerIteration(c)]
        structure == SearchStructure(c, pf, u.cursor, lpid, draw, u.iteration)
        ms == FallbackModels(c, RescaleModels(c,
                  EstimateModels(c, pf, u.cursor, structure)))
    IN  [result |-> AddWeakModel(u.result, ms.Estimation),
         cursor |-> UpdateCursor(c, u.cursor, ms),
         testCursor |-> UpdateTestCursor(u.testCursor, ms),
         rngPos |-> u.rngPos + DrawsPerIteration(c),
         iteration |-> u.iteration + 1]

(***************************************************************************)
(* Run                                                                     *)
(***************************************************************************)
\* the locals of an iteration (lines 255-441) outside their scope
NoModels == [FoldData |-> <<>>, Estimation |-> TWeakModel(0)]

NoTrackerCalls ==
    [trackLearnErrors |-> 0, trackTestErrors |-> 0, bestCopies |-> 0,
     setBestTestCursor |-> 0, snapshots |-> 0,
     \* best iterations reported while a best-test cursor was requested
     bestReported |-> 0,
     \* size of the result model when ShouldStop() returned true, -1 before
     stoppedWith |-> -1,
     \* MaybeSaveSnapshot calls after the loop
     finalSnapshotCalls |-> 0,
     \* buffers the restore callback loaded after the progress blob
     buffersLoaded |-> 0]

NothingAdded(pf) ==
    [FoldData |-> [p \in DOMAIN pf |-> [f \in 1..Len(pf[p]) |-> 0]],
     Estimation |-> 0, Test |-> 0]

\* lines 582-583 with the CB_ENSURE(ProgressTracker) left out
RunChecksPassWithoutTracker(c) == c.hasDataProvider

\* lines 582-583: CB_ENSURE(DataProvider), CB_ENSURE(ProgressTracker)
RunChecksPass(c) == c.hasDataProvider /\ c.hasProgressTracker

\* lines 582-583: one of the two CB_ENSURE of Run throws
RunThrows ==
    /\ pc \in {"start", "rejected"}
    /\ runs < MaxRuns
    /\ ~RunChecksPass(cfg)
    /\ pc' = "rejected"
    /\ runs' = runs + 1
    /\ UNCHANGED <<cfg, permutationFolds, cursor, testCursor, bestTestCursor,
                   result, weakModelStructure, learnPermutationId, models,
                   iteration, interruptRequested, snapshot, rng, tracker, added,
                   completed, uninterrupted, restored, estimator>>
    /\ UNCHANGED outsideFit

\* lines 581-614: CreateState, the best-test cursor, the restore, then Fit
Run ==
    /\ pc \in {"start", "interrupted", "done", "aborted"}
    /\ runs < MaxRuns
    /\ RunChecksPass(cfg)
    /\ FoldChecksPass(StateFoldInput(cfg))
    /\ LET pf == StatePermutationFolds(cfg)
           fresh == [result |-> <<>>, cursor |-> StateCursor(cfg, pf),
                     testCursor |-> StateTestCursor(cfg),
                     bestTestCursor |-> StateBestTestCursor(cfg)]
           st == IF snapshot.written THEN RestoreCallback(cfg, snapshot.data, fresh)
                 ELSE fresh
       IN  /\ permutationFolds' = pf
           /\ result' = st.result
           /\ cursor' = st.cursor
           /\ testCursor' = st.testCursor
           /\ bestTestCursor' = st.bestTestCursor
           /\ iteration' = IF snapshot.written THEN snapshot.iteration ELSE 0
           /\ rng' = [rng EXCEPT !.pos = IF snapshot.written THEN snapshot.rngPos ELSE 0]
           /\ added' = IF snapshot.written THEN snapshot.added ELSE NothingAdded(pf)
           /\ completed' = IF snapshot.written THEN snapshot.completed ELSE 0
           /\ uninterrupted' = IF runs = 0
                               THEN [result |-> <<>>, cursor |-> fresh.cursor,
                                     testCursor |-> fresh.testCursor,
                                     rngPos |-> 0, iteration |-> 0]
                               ELSE uninterrupted
    /\ runs' = runs + 1
    /\ restored' = IF snapshot.written THEN Len(snapshot.data.progress.model) ELSE 0
    /\ tracker' = [NoTrackerCalls EXCEPT
                       !.buffersLoaded =
                           IF snapshot.written
                           THEN BuffersLoaded([bestTestCursor |-> StateBestTestCursor(cfg)])
                           ELSE 0]
    /\ interruptRequested' = FALSE
    /\ pc' = "head"
    /\ weakModelStructure' = 0
    /\ learnPermutationId' = 0
    /\ models' = NoModels
    /\ estimator' = NoEstimator
    /\ UNCHANGED <<cfg, snapshot>>
    /\ UNCHANGED outsideFit

(***************************************************************************)
(* Fit                                                                     *)
(***************************************************************************)
InIteration == {"search", "estimate", "rescale", "fallback", "append", "addweak", "track"}

\* the external interruption signal, raised at any moment of the training
RaiseInterrupt ==
    /\ pc \in {"head"} \cup InIteration
    /\ ~interruptRequested
    /\ interruptRequested' = TRUE
    /\ UNCHANGED <<pc, cfg, permutationFolds, cursor, testCursor, bestTestCursor,
                   result, weakModelStructure, learnPermutationId, models,
                   iteration, snapshot, rng, tracker, added, completed,
                   uninterrupted, runs, restored>>
    /\ UNCHANGED estimator
    /\ UNCHANGED outsideFit

\* ShouldStop(): the iteration budget is used up, or the overfitting detector fired
ShouldStopAnswers == IF iteration >= MaxIterations THEN {TRUE} ELSE BOOLEAN

\* line 249: ShouldStop() returned true
LoopExit ==
    /\ pc = "head"
    /\ TRUE \in ShouldStopAnswers
    /\ pc' = "final"
    /\ tracker' = [tracker EXCEPT !.stoppedWith = Len(result)]
    /\ UNCHANGED <<cfg, permutationFolds, cursor, testCursor, bestTestCursor,
                   result, weakModelStructure, learnPermutationId, models,
                   iteration, interruptRequested, snapshot, rng, added,
                   completed, uninterrupted, runs, restored>>
    /\ UNCHANGED estimator
    /\ UNCHANGED outsideFit

\* lines 250 and 252 swapped: the snapshot is written before the
\* interruption check throws
InterruptedAfterSnapshot ==
    /\ pc = "head"
    /\ FALSE \in ShouldStopAnswers
    /\ interruptRequested
    /\ snapshot' = WrittenSnapshot
    /\ tracker' = [tracker EXCEPT !.snapshots = @ + 1]
    /\ pc' = "interrupted"
    /\ UNCHANGED <<cfg, permutationFolds, cursor, testCursor, bestTestCursor,
                   result, weakModelStructure, learnPermutationId, models,
                   iteration, interruptRequested, rng, added,
                   completed, uninterrupted, runs, restored>>
    /\ UNCHANGED estimator
    /\ UNCHANGED outsideFit

\* lines 249-250: ShouldStop() returned false and CheckInterrupted() throws
Interrupted ==
    /\ pc = "head"
    /\ FALSE \in ShouldStopAnswers
    /\ interruptRequested
    /\ pc' = "interrupted"
    /\ UNCHANGED <<cfg, permutationFolds, cursor, testCursor, bestTestCursor,
                   result, weakModelStructure, learnPermutationId, models,
                   iteration, interruptRequested, snapshot, rng, tracker, added,
                   completed, uninterrupted, runs, restored>>
    /\ UNCHANGED estimator
    /\ UNCHANGED outsideFit

\* lines 249-254: ShouldStop() returned false, CheckInterrupted() returned,
\* MaybeSaveSnapshot(snapshotSaver) saved or not
BeginIteration ==
    /\ pc = "head"
    /\ FALSE \in ShouldStopAnswers
    /\ ~interruptRequested
    /\ \E save \in BOOLEAN :
         /\ snapshot' = IF save THEN WrittenSnapshot ELSE snapshot
         /\ tracker' = IF save THEN [tracker EXCEPT !.snapshots = @ + 1] ELSE tracker
    /\ pc' = "search"
    /\ UNCHANGED <<cfg, permutationFolds, cursor, testCursor, bestTestCursor,
                   result, weakModelStructure, learnPermutationId, models,
                   iteration, interruptRequested, rng, added, completed,
                   uninterrupted, runs, restored>>
    /\ UNCHANGED estimator
    /\ UNCHANGED outsideFit

\* Random.NextUniformL(): the next value of the stream, which is the recorded
\* one when the stream is replayed
NextUniformL(r) ==
    IF r.pos < Len(r.log) THEN {r.log[r.pos + 1]} ELSE RandomValues

Drawn(r, v) ==
    [log |-> IF r.pos < Len(r.log) THEN r.log ELSE Append(r.log, v), pos |-> r.pos + 1]

\* lines 260-312: search for the weak model structure
SearchForStructure ==
    /\ pc = "search"
    /\ \E r \in (IF LearnPermutationCount(cfg) > 1 THEN NextUniformL(rng) ELSE {0}) :
         LET rng1 == IF LearnPermutationCount(cfg) > 1 THEN Drawn(rng, r) ELSE rng
         IN  \E d \in NextUniformL(rng1) :
               /\ learnPermutationId' = PickLearnPermutation(cfg, r)
               /\ weakModelStructure' =
                      SearchStructure(cfg, permutationFolds, cursor,
                                      PickLearnPermutation(cfg, r), d, iteration)
               /\ rng' = Drawn(rng1, d)
    /\ pc' = "estimate"
    /\ UNCHANGED <<cfg, permutationFolds, cursor, testCursor, bestTestCursor,
                   result, models, iteration, interruptRequested, snapshot,
                   tracker, added, completed, uninterrupted, runs, restored>>
    /\ UNCHANGED estimator
    /\ UNCHANGED outsideFit

\* lines 339-385: the estimation tasks and estimator.Estimate
Estimate ==
    /\ pc = "estimate"
    /\ LET created == CreateEstimator(estimator)
           registered ==
               created.registered \cup
               {[iteration |-> iteration, task |-> t] :
                    t \in AddEstimationTasks(cfg, permutationFolds, cursor)}
           tasks == {r.task : r \in registered}
       IN  /\ estimator' = [tasks |-> tasks,
                             estimateCalls |-> created.estimateCalls + 1,
                             registered |-> registered]
           /\ models' = EstimatorEstimate(cfg, weakModelStructure, tasks,
                             DefaultModels(cfg, permutationFolds, weakModelStructure))
    /\ pc' = "rescale"
    /\ UNCHANGED <<cfg, permutationFolds, cursor, testCursor, bestTestCursor,
                   result, weakModelStructure, learnPermutationId, iteration,
                   interruptRequested, snapshot, rng, tracker, added, completed,
                   uninterrupted, runs, restored>>
    /\ UNCHANGED outsideFit

\* lines 387-389
RescaleStep ==
    /\ pc = "rescale"
    /\ models' = RescaleModels(cfg, models)
    /\ pc' = "fallback"
    /\ UNCHANGED <<cfg, permutationFolds, cursor, testCursor, bestTestCursor,
                   result, weakModelStructure, learnPermutationId, iteration,
                   interruptRequested, snapshot, rng, tracker, added, completed,
                   uninterrupted, runs, restored>>
    /\ UNCHANGED estimator
    /\ UNCHANGED outsideFit

\* lines 392-394
Fallback ==
    /\ pc = "fallback"
    /\ models' = FallbackModels(cfg, models)
    /\ pc' = "append"
    /\ UNCHANGED <<cfg, permutationFolds, cursor, testCursor, bestTestCursor,
                   result, weakModelStructure, learnPermutationId, iteration,
                   interruptRequested, snapshot, rng, tracker, added, completed,
                   uninterrupted, runs, restored>>
    /\ UNCHANGED estimator
    /\ UNCHANGED outsideFit

\* lines 425-428: the slice of every fold cursor is (0, QualityEvaluateSamples.Right)
CursorSlicesMatch(pf, cur) ==
    \A p \in DOMAIN pf : \A f \in 1..Len(pf[p]) :
        DOMAIN cur.FoldData[p][f] = 0..(pf[p][f].QualityEvaluateSamples.Right - 1)

\* lines 396-438 followed by a MaybeSaveSnapshot inside the iteration
AppendModelsThenSnapshot ==
    /\ pc = "append"
    /\ cursor' = UpdateCursor(cfg, cursor, models)
    /\ testCursor' = IF cfg.hasTest THEN UpdateTestCursor(testCursor, models)
                     ELSE testCursor
    /\ added' = [FoldData |-> [p \in DOMAIN added.FoldData |->
                                  [f \in DOMAIN added.FoldData[p] |->
                                      added.FoldData[p][f] + 1]],
                 Estimation |-> added.Estimation + 1,
                 Test |-> IF cfg.hasTest THEN added.Test + 1 ELSE added.Test]
    /\ snapshot' = [written |-> TRUE,
                    data |-> SnapshotSaver(result, cursor', testCursor', bestTestCursor),
                    iteration |-> iteration, rngPos |-> rng.pos,
                    completed |-> completed, added |-> added',
                    saved |-> [result |-> result, cursor |-> cursor',
                               testCursor |-> testCursor',
                               bestTestCursor |-> bestTestCursor]]
    /\ pc' = "addweak"
    /\ UNCHANGED <<cfg, permutationFolds, bestTestCursor, result,
                   weakModelStructure, learnPermutationId, models, iteration,
                   interruptRequested, rng, tracker, completed,
                   uninterrupted, runs, restored>>
    /\ UNCHANGED estimator
    /\ UNCHANGED outsideFit

\* lines 396-438: the addModelValue tasks and Proceed
AppendModels ==
    /\ pc = "append"
    /\ IF CursorSlicesMatch(permutationFolds, cursor)
       THEN /\ cursor' = UpdateCursor(cfg, cursor, models)
            /\ testCursor' = IF cfg.hasTest THEN UpdateTestCursor(testCursor, models)
                             ELSE testCursor
            /\ added' = [FoldData |-> [p \in DOMAIN added.FoldData |->
                                          [f \in DOMAIN added.FoldData[p] |->
                                              added.FoldData[p][f] + 1]],
                         Estimation |-> added.Estimation + 1,
                         Test |-> IF cfg.hasTest THEN added.Test + 1 ELSE added.Test]
            /\ pc' = "addweak"
       ELSE \* the CB_ENSURE of line 428 throws before Proceed()
            /\ pc' = "failed"
            /\ UNCHANGED <<cursor, testCursor, added>>
    /\ UNCHANGED <<cfg, permutationFolds, bestTestCursor, result,
                   weakModelStructure, learnPermutationId, models, iteration,
                   interruptRequested, snapshot, rng, tracker, completed,
                   uninterrupted, runs, restored>>
    /\ UNCHANGED estimator
    /\ UNCHANGED outsideFit

\* line 440 preceded by a second CheckInterrupted() inside the iteration
AddWeakModelStepInterruptible ==
    /\ pc = "addweak"
    /\ IF interruptRequested
       THEN /\ pc' = "interrupted"
            /\ UNCHANGED result
       ELSE /\ result' = AddWeakModel(result, models.Estimation)
            /\ pc' = "track"
    /\ UNCHANGED <<cfg, permutationFolds, cursor, testCursor, bestTestCursor,
                   weakModelStructure, learnPermutationId, models, iteration,
                   interruptRequested, snapshot, rng, tracker, added, completed,
                   uninterrupted, runs, restored>>
    /\ UNCHANGED estimator
    /\ UNCHANGED outsideFit

\* line 440
AddWeakModelStep ==
    /\ pc = "addweak"
    /\ result' = AddWeakModel(result, models.Estimation)
    /\ pc' = "track"
    /\ UNCHANGED <<cfg, permutationFolds, cursor, testCursor, bestTestCursor,
                   weakModelStructure, learnPermutationId, models, iteration,
                   interruptRequested, snapshot, rng, tracker, added, completed,
                   uninterrupted, runs, restored>>
    /\ UNCHANGED estimator
    /\ UNCHANGED outsideFit

\* lines 443-460: the listeners and the best-test-cursor copy; the iteration
\* is complete when the one-iteration tracker goes out of scope
TrackErrors ==
    /\ pc = "track"
    /\ \E isBest \in BOOLEAN :
         LET tracked == [tracker EXCEPT
                            !.trackLearnErrors = @ + 1,
                            !.trackTestErrors = IF cfg.hasTest THEN @ + 1 ELSE @,
                            !.bestReported = IF isBest /\ cfg.needBest THEN @ + 1 ELSE @]
         IN  IF isBest /\ bestTestCursor # Null
             THEN IF testCursor = Null
                  THEN \* Y_VERIFY(testCursor) fails
                       /\ pc' = "aborted"
                       /\ tracker' = tracked
                       /\ UNCHANGED <<bestTestCursor, iteration, completed,
                                      uninterrupted, weakModelStructure,
                                      learnPermutationId, models, estimator>>
                  ELSE /\ bestTestCursor' = testCursor
                       /\ tracker' = [tracked EXCEPT !.bestCopies = @ + 1]
                       /\ iteration' = iteration + 1
                       /\ completed' = completed + 1
                       /\ uninterrupted' =
                            IF Len(result) > Len(uninterrupted.result)
                            THEN FitIteration(cfg, permutationFolds, uninterrupted, rng.log)
                            ELSE uninterrupted
                       /\ pc' = "head"
                       /\ weakModelStructure' = 0
                       /\ learnPermutationId' = 0
                       /\ models' = NoModels
                       /\ UNCHANGED estimator
             ELSE /\ tracker' = tracked
                  /\ iteration' = iteration + 1
                  /\ completed' = completed + 1
                  /\ uninterrupted' =
                       IF Len(result) > Len(uninterrupted.result)
                       THEN FitIteration(cfg, permutationFolds, uninterrupted, rng.log)
                       ELSE uninterrupted
                  /\ pc' = "head"
                  /\ weakModelStructure' = 0
                  /\ learnPermutationId' = 0
                  /\ models' = NoModels
                  /\ UNCHANGED estimator
                  /\ UNCHANGED bestTestCursor
    /\ UNCHANGED <<cfg, permutationFolds, cursor, testCursor, result,
                   interruptRequested, snapshot, rng, added, runs, restored>>
    /\ UNCHANGED outsideFit

\* lines 464-468 without the MaybeSaveSnapshot of line 462
FinalizeWithoutSnapshot ==
    /\ pc = "final"
    /\ tracker' = [tracker EXCEPT
                       !.setBestTestCursor = IF bestTestCursor # Null THEN @ + 1 ELSE @]
    /\ pc' = "done"
    /\ UNCHANGED <<cfg, permutationFolds, cursor, testCursor, bestTestCursor,
                   result, weakModelStructure, learnPermutationId, models,
                   iteration, interruptRequested, snapshot, rng, added, completed,
                   uninterrupted, runs, restored>>
    /\ UNCHANGED estimator
    /\ UNCHANGED outsideFit

\* lines 462-468: the final snapshot and the best test cursor handed over
Finalize ==
    /\ pc = "final"
    /\ \E save \in BOOLEAN :
         /\ snapshot' = IF save THEN WrittenSnapshot ELSE snapshot
         /\ tracker' = [tracker EXCEPT
                            !.snapshots = IF save THEN @ + 1 ELSE @,
                            !.finalSnapshotCalls = @ + 1,
                            !.setBestTestCursor =
                                IF bestTestCursor # Null THEN @ + 1 ELSE @]
    /\ pc' = "done"
    /\ UNCHANGED <<cfg, permutationFolds, cursor, testCursor, bestTestCursor,
                   result, weakModelStructure, learnPermutationId, models,
                   iteration, interruptRequested, rng, added, completed,
                   uninterrupted, runs, restored>>
    /\ UNCHANGED estimator
    /\ UNCHANGED outsideFit

(***************************************************************************)
(* The training loop as a state machine                                    *)
(***************************************************************************)
Configs ==
    [hasDataProvider : BOOLEAN, hasProgressTracker : BOOLEAN,
     hasTest : BOOLEAN, needBest : BOOLEAN, plain : BOOLEAN,
     permutationCount : 1..MaxPermutations, hasBaseline : BOOLEAN,
     learningRate : {2}, growthRate : {<<2, 1>>}, minFoldSize : {100}]

(***************************************************************************)
(* MinEstimationSize on its own, over bounded inputs                       *)
(***************************************************************************)
\* no MinEstimationSize call under study
NoPolicyCall == [docCount |-> 1, minFoldSize |-> 1]

PolicyIdle ==
    /\ policyIn = NoPolicyCall
    /\ policyPc = "idle"
    /\ policyOut = 0

NoCrossValidation ==
    [globalMaxIteration |-> 1, iterationsBatchSize |-> 1, metricPeriod |-> 1,
     metricCount |-> 1, isErrorTrackerActive |-> FALSE, foldCount |-> 1]

\* no cross-validation under study
CrossValidateIdle ==
    /\ cvIn = NoCrossValidation
    /\ cvPc = "idle"
    /\ cvBatch = [batchStartIteration |-> 0, batchEndIteration |-> 0,
                  iteration |-> 0, isNeedStop |-> FALSE]
    /\ cvFold = 1
    /\ trainer = [done |-> 0, returned |-> TRUE]
    /\ foldContexts = <<>>

NoSubsetCall == [groupCount |-> 0, testSubsets |-> <<>>]

\* no CalcTrainSubsets call under study
SubsetIdle ==
    /\ subsetIn = NoSubsetCall
    /\ subsetPc = "idle"
    /\ subsetAt = [testFold |-> 1, idx |-> 1]
    /\ trainSubsetIndices = <<>>
    /\ subsetOut = <<>>

\* pool sizes around every branch of the policy
DocCounts ==
    {1, 2, 49, 50, 51, 499, 500, 501, 1000, 4999, 5000, 5001, 50000,
     Pow2(18) - 1, Pow2(18), Pow2(18) + 1, Pow2(19), Pow2(19) + 1,
     1000000, 100 * Pow2(18) - 100, 100 * Pow2(18) - 99, 100 * Pow2(18),
     Pow2(30)}

MinFoldSizes == {1, 2, 3, 9, 10, 11, 50, 100, 1000}

PolicyInputs == [docCount : DocCounts, minFoldSize : MinFoldSizes]

\* lines 154-164
MinEstimationSizeCall ==
    /\ policyPc = "call"
    /\ policyOut' = MinEstimationSize(policyIn.docCount, policyIn.minFoldSize)
    /\ policyPc' = "returned"
    /\ UNCHANGED policyIn
    /\ UNCHANGED outsidePolicy

(***************************************************************************)
(* TObliviousTreeLeavesEstimator                                           *)
(***************************************************************************)
\* the destination models, each the target of at most one task
DstModels == 1..MaxTasks

\* the bin (leaf) of a row under a structure of the given depth
TaskBin(depth, row) == row % Pow2(depth)

\* what the target of the task of destination model dst holds against the
\* current cursor for a row
TaskResidual(dst, row) == dst + 2 * row

\* an estimator as constructed: no task
NoOracle == [TaskHelpers |-> <<>>, TaskSlices |-> <<>>, WriteDst |-> <<>>]

\* NextTask: a new helper, its leaf slice right after the slice of the task
\* before it, and its destination model
NextTask(o, dst, depth) ==
    LET prevTaskOffset == IF Len(o.TaskSlices) > 0
                          THEN o.TaskSlices[Len(o.TaskSlices)].Right ELSE 0
    IN  [TaskHelpers |-> Append(o.TaskHelpers, [Bins |-> <<>>, Indices |-> <<>>,
                                                Baseline |-> <<>>, Offsets |-> <<>>]),
         TaskSlices |-> Append(o.TaskSlices,
                               TSlice(prevTaskOffset, prevTaskOffset + Pow2(depth))),
         WriteDst |-> Append(o.WriteDst, dst)]

\* ReorderBins: the rows in the order of their bins, rows of one bin in
\* their own order
RECURSIVE RowsByBin(_, _)
RowsByBin(depth, bin) ==
    IF bin = Pow2(depth) THEN <<>>
    ELSE SelectSeq([i \in 1..NumRows |-> i - 1], LAMBDA r : TaskBin(depth, r) = bin)
         \o RowsByBin(depth, bin + 1)

\* UpdatePartitionOffsets: where the rows of every bin start, binCount + 1 entries
PartitionOffsets(bins, binCount) ==
    [b \in 0..binCount |-> Cardinality({i \in 1..Len(bins) : bins[i] < b})]

\* lines 121-157 and 159-192 with the baseline gathered by the sequence of
\* MakeSequence, before ReorderBins has reordered it
AddEstimationTaskBaselineInRowOrder(o, dst, depth) ==
    LET binCount == Pow2(depth)
        next == NextTask(o, dst, depth)
        indices == RowsByBin(depth, 0)
        bins == [i \in 1..Len(indices) |-> TaskBin(depth, indices[i])]
        task == [Bins |-> bins, Indices |-> indices,
                 Baseline |-> [i \in 1..Len(indices) |-> TaskResidual(dst, i - 1)],
                 Offsets |-> PartitionOffsets(bins, binCount)]
    IN  [next EXCEPT !.TaskHelpers[Len(next.TaskHelpers)] = task]

\* lines 121-157 and 159-192: the helper of the new task filled in
AddEstimationTask(o, dst, depth) ==
    LET binCount == Pow2(depth)
        next == NextTask(o, dst, depth)
        indices == RowsByBin(depth, 0)
        bins == [i \in 1..Len(indices) |-> TaskBin(depth, indices[i])]
        task == [Bins |-> bins, Indices |-> indices,
                 Baseline |-> [i \in 1..Len(indices) |-> TaskResidual(dst, indices[i])],
                 Offsets |-> PartitionOffsets(bins, binCount)]
    IN  [next EXCEPT !.TaskHelpers[Len(next.TaskHelpers)] = task]

\* lines 93-96 with the size of the last slice returned
PointDimOfLastTask(o) ==
    IF Len(o.TaskHelpers) = 0 THEN [failed |-> TRUE, value |-> 0]
    ELSE [failed |-> FALSE,
          value |-> o.TaskSlices[Len(o.TaskSlices)].Right
                    - o.TaskSlices[Len(o.TaskSlices)].Left]

\* lines 93-96
PointDim(o) ==
    IF Len(o.TaskHelpers) = 0 THEN [failed |-> TRUE, value |-> 0]
    ELSE [failed |-> FALSE, value |-> o.TaskSlices[Len(o.TaskSlices)].Right]

\* lines 72-75 with every task reading the leaves from the start
LeavesViewFromStart(o, leaves, taskId) ==
    SliceView(leaves, TSlice(0, o.TaskSlices[taskId].Right - o.TaskSlices[taskId].Left))

\* lines 72-75
LeavesView(o, leaves, taskId) == SliceView(leaves, o.TaskSlices[taskId])

\* the task whose leaf slice holds position k of the point
TaskOfPosition(o, k) ==
    CHOOSE i \in 1..Len(o.TaskSlices) :
        o.TaskSlices[i].Left <= k /\ k < o.TaskSlices[i].Right

\* the sum of a task's residuals over the partition of one leaf
LeafSum(task, leaf) ==
    SumTo([pos \in 0..(Len(task.Baseline) - 1) |->
              IF task.Offsets[leaf] <= pos /\ pos < task.Offsets[leaf + 1]
              THEN task.Baseline[pos + 1] ELSE 0], Len(task.Baseline))

\* the point the descent ends in: PointDim() values, the leaves of every task
\* in its slice
EstimatedPoint(o) ==
    [k \in 0..(PointDim(o).value - 1) |->
        LET i == TaskOfPosition(o, k)
        IN  LeafSum(o.TaskHelpers[i], k - o.TaskSlices[i].Left)]

\* the values of a view as the leaf values of a model, leaf 0 first
LeafValuesOfView(view) ==
    LET first == CHOOSE k \in DOMAIN view : \A j \in DOMAIN view : k <= j
    IN  [l \in 0..(Cardinality(DOMAIN view) - 1) |-> view[first + l]]

\* Estimate: the leaves view of every task written to its destination model
EstimateWrites(o, dstModels) ==
    [d \in DOMAIN dstModels |->
        IF \E i \in 1..Len(o.WriteDst) : o.WriteDst[i] = d
        THEN LeafValuesOfView(LeavesView(o, EstimatedPoint(o),
                 CHOOSE i \in 1..Len(o.WriteDst) : o.WriteDst[i] = d))
        ELSE dstModels[d]]

NoOracleCall == [d \in DstModels |-> 0]

\* nothing written, nothing asked
NoOracleOutput ==
    [models |-> [d \in DstModels |-> Null],
     pointDim |-> [called |-> FALSE, failed |-> FALSE, value |-> 0, tasks |-> <<>>],
     estimated |-> <<>>]

\* no estimator under study
OracleIdle ==
    /\ oracleIn = NoOracleCall
    /\ oracle = NoOracle
    /\ oraclePc = "idle"
    /\ oracleOut = NoOracleOutput

\* destination models that were given a task, estimated or not
EverRegistered ==
    {oracle.WriteDst[i] : i \in 1..Len(oracle.WriteDst)} \cup
    {oracleOut.estimated[i] : i \in 1..Len(oracleOut.estimated)}

\* AddEstimationTask for a destination model that has no task yet
OracleAddEstimationTask ==
    /\ oraclePc = "tasks"
    /\ \E dst \in DstModels \ EverRegistered :
          oracle' = AddEstimationTask(oracle, dst, oracleIn[dst])
    /\ UNCHANGED <<oracleIn, oraclePc, oracleOut>>
    /\ UNCHANGED outsideOracle

\* PointDim() asked by the descent routine or by any caller
OraclePointDim ==
    /\ oraclePc = "tasks"
    /\ oracleOut' = [oracleOut EXCEPT
                        !.pointDim = [called |-> TRUE,
                                      failed |-> PointDim(oracle).failed,
                                      value |-> PointDim(oracle).value,
                                      tasks |-> oracle.WriteDst]]
    /\ UNCHANGED <<oracleIn, oracle, oraclePc>>
    /\ UNCHANGED outsideOracle

\* Estimate: every registered task estimated and written, the per-call state reset
OracleEstimate ==
    /\ oraclePc = "tasks"
    /\ Len(oracle.TaskHelpers) > 0
    /\ oracleOut' = [oracleOut EXCEPT
                        !.models = EstimateWrites(oracle, @),
                        !.estimated = @ \o oracle.WriteDst]
    /\ oracle' = NoOracle
    /\ UNCHANGED <<oracleIn, oraclePc>>
    /\ UNCHANGED outsideOracle

NoFoldCall ==
    [sampleCount |-> 0, growthRate |-> <<2, 1>>, grouping |-> <<>>,
     devCount |-> 1, minFoldSize |-> 1, plain |-> TRUE]

\* the training loop before Run() is called, under configuration c
LoopIdle(c) ==
    /\ pc = "start"
    /\ cfg = c
    /\ permutationFolds = <<>>
    /\ cursor = [FoldData |-> <<>>, Estimation |-> <<>>]
    /\ testCursor = Null
    /\ bestTestCursor = Null
    /\ result = <<>>
    /\ weakModelStructure = 0
    /\ learnPermutationId = 0
    /\ models = NoModels
    /\ estimator = NoEstimator
    /\ iteration = 0
    /\ interruptRequested = FALSE
    /\ snapshot = NoSnapshot
    /\ rng = [log |-> <<>>, pos |-> 0]
    /\ tracker = NoTrackerCalls
    /\ added = [FoldData |-> <<>>, Estimation |-> 0, Test |-> 0]
    /\ completed = 0
    /\ uninterrupted = [result |-> <<>>, cursor |-> [FoldData |-> <<>>, Estimation |-> <<>>],
                        testCursor |-> Null, rngPos |-> 0, iteration |-> 0]
    /\ runs = 0
    /\ restored = 0

\* no CreateFolds call under study
FoldIdle ==
    /\ foldIn = NoFoldCall
    /\ foldPc = "idle"
    /\ folds = <<>>

NoDataSetCall ==
    [hasDataProvider |-> FALSE, order |-> "Undefined", permutationCount |-> 1,
     objectCount |-> 1, permutationBlockSize |-> 1]

\* no CreateDataSet call under study
DataSetIdle ==
    /\ dsIn = NoDataSetCall
    /\ dsPc = "idle"
    /\ dsOut = NoDataSet
    /\ dsState = NoStateSizes

Init ==
    /\ \E c \in Configs : LoopIdle(c)
    /\ FoldIdle
    /\ DataSetIdle
    /\ OracleIdle
    /\ PolicyIdle
    /\ SubsetIdle
    /\ CrossValidateIdle

Next ==
    \/ RunThrows
    \/ Run
    \/ RaiseInterrupt
    \/ LoopExit
    \/ Interrupted
    \/ BeginIteration
    \/ SearchForStructure
    \/ Estimate
    \/ RescaleStep
    \/ Fallback
    \/ AppendModels
    \/ AddWeakModelStep
    \/ TrackErrors
    \/ Finalize

Spec == Init /\ [][Next]_vars

(***************************************************************************)
(* CreateFolds on its own, over bounded inputs                             *)
(***************************************************************************)
\* every way to cut n rows into consecutive groups
RECURSIVE Groupings(_)
Groupings(n) ==
    IF n = 0 THEN {<<>>}
    ELSE UNION {{<<k>> \o g : g \in Groupings(n - k)} : k \in 1..n}

GrowthRates == {<<1, 1>>, <<5, 4>>, <<3, 2>>, <<2, 1>>, <<3, 1>>}

\* ordered boosting over ungrouped rows on one device
OrderedUngrouped(sampleCount, growthRate, minFoldSize) ==
    [sampleCount |-> sampleCount, growthRate |-> growthRate,
     grouping |-> WithoutQueriesGrouping(sampleCount), devCount |-> 1,
     minFoldSize |-> minFoldSize, plain |-> FALSE]

\* pools large enough for the policy of MinEstimationSize to matter
LargePools ==
    {OrderedUngrouped(1000, <<2, 1>>, 100), OrderedUngrouped(500, <<5, 4>>, 100)}

\* a pool on two devices with more than 2 * 16 * devCount groups, so that
\* 16 * devCount is the smaller argument of the Min of line 175
TwoDevicePool == [OrderedUngrouped(100, <<2, 1>>, 1) EXCEPT !.devCount = 2]

FoldInputs ==
    LargePools \cup {TwoDevicePool} \cup
    UNION {[sampleCount : {n}, growthRate : GrowthRates, grouping : Groupings(n),
            devCount : 1..MaxDevices, minFoldSize : {1, 100}, plain : BOOLEAN]
           : n \in 1..MaxSamples}

\* lines 178-180: one of the CB_ENSURE throws
CreateFoldsThrows ==
    /\ foldPc = "call"
    /\ ~FoldChecksPass(foldIn)
    /\ foldPc' = "failed"
    /\ UNCHANGED <<foldIn, folds>>
    /\ UNCHANGED outsideCreateFolds

\* lines 183-187
CreateFoldsPlain ==
    /\ foldPc = "call"
    /\ FoldChecksPass(foldIn)
    /\ foldIn.plain
    /\ folds' = PlainFolds(foldIn)
    /\ foldPc' = "returned"
    /\ UNCHANGED foldIn
    /\ UNCHANGED outsideCreateFolds

\* lines 189-192
CreateFoldsSeed ==
    /\ foldPc = "call"
    /\ FoldChecksPass(foldIn)
    /\ ~foldIn.plain
    /\ folds' = <<SeedFold(foldIn)>>
    /\ foldPc' = "loop"
    /\ UNCHANGED foldIn
    /\ UNCHANGED outsideCreateFolds

\* lines 194-200: one pass of the while loop
CreateFoldsPush ==
    /\ foldPc = "loop"
    /\ FoldLoopContinues(foldIn, folds)
    /\ Len(folds) < MaxFolds
    /\ folds' = Append(folds, NextFold(foldIn, folds))
    /\ UNCHANGED <<foldIn, foldPc>>
    /\ UNCHANGED outsideCreateFolds

\* line 201
CreateFoldsReturn ==
    /\ foldPc = "loop"
    /\ ~FoldLoopContinues(foldIn, folds)
    /\ foldPc' = "returned"
    /\ UNCHANGED <<foldIn, folds>>
    /\ UNCHANGED outsideCreateFolds

FoldInit ==
    /\ LoopIdle(CHOOSE c \in Configs : TRUE)
    /\ foldIn \in FoldInputs
    /\ foldPc = "call"
    /\ folds = <<>>
    /\ DataSetIdle
    /\ OracleIdle
    /\ PolicyIdle
    /\ SubsetIdle
    /\ CrossValidateIdle

FoldNext ==
    \/ CreateFoldsThrows
    \/ CreateFoldsPlain
    \/ CreateFoldsSeed
    \/ CreateFoldsPush
    \/ CreateFoldsReturn

FoldSpec == FoldInit /\ [][FoldNext]_vars

(***************************************************************************)
(* CreateDataSet on its own, over bounded inputs                           *)
(***************************************************************************)
\* NCB::EObjectsOrder
EObjectsOrder == {"Ordered", "RandomShuffled", "Undefined"}

ObjectCounts == {1, 499, 49999, 50000, 65536, 1000000}

PermutationBlockSizes ==
    {0, 1, 2, 3, 32, 1000, 65536, Pow2(24), Pow2(25), Pow2(25) + 1, Pow2(30),
     Pow2(30) + (Pow2(30) - 1)}

DataSetInputs ==
    [hasDataProvider : BOOLEAN, order : EObjectsOrder,
     permutationCount : 0..MaxConfigPermutations,
     objectCount : ObjectCounts, permutationBlockSize : PermutationBlockSizes]

\* line 119: CB_ENSURE(DataProvider) throws
CreateDataSetThrows ==
    /\ dsPc = "call"
    /\ ~dsIn.hasDataProvider
    /\ dsPc' = "failed"
    /\ UNCHANGED <<dsIn, dsOut, dsState>>
    /\ UNCHANGED outsideCreateDataSet

\* lines 118-135
CreateDataSet ==
    /\ dsPc = "call"
    /\ dsIn.hasDataProvider
    /\ dsOut' = BuiltDataSet(dsIn)
    /\ dsPc' = "returned"
    /\ UNCHANGED <<dsIn, dsState>>
    /\ UNCHANGED outsideCreateDataSet

\* lines 536-541: the per-permutation storage resized to learnPermutationCount;
\* a resize to 2^16 elements or more may end in std::bad_alloc
CreateStateResize ==
    /\ dsPc = "returned"
    /\ LET learnPermutationCount == StateLearnPermutationCount(dsOut.permutationCount)
       IN  /\ dsState' = [sized |-> TRUE, permutationFolds |-> learnPermutationCount,
                          foldData |-> learnPermutationCount]
           /\ dsPc' \in IF learnPermutationCount.hi > 0 THEN {"resized", "badalloc"}
                        ELSE {"resized"}
    /\ UNCHANGED <<dsIn, dsOut>>
    /\ UNCHANGED outsideCreateDataSet

\* lines 543-577: GetPermutation(i) for every i below learnPermutationCount and
\* for estimationPermutation; an index not below PermutationsCount() is out of
\* the range of the data set's permutations
CreateStateFolds ==
    /\ dsPc = "resized"
    /\ dsPc' = IF /\ ~UI32Less(UI32(dsOut.permutationCount), dsState.permutationFolds)
                  /\ UI32Less(StateEstimationPermutation(dsOut.permutationCount),
                              UI32(dsOut.permutationCount))
               THEN "state" ELSE "outofrange"
    /\ UNCHANGED <<dsIn, dsOut, dsState>>
    /\ UNCHANGED outsideCreateDataSet

\* lines 227-228: Fit reads PermutationsCount() and checks it
FitChecksPermutationCount ==
    /\ dsPc = "state"
    /\ dsPc' = IF dsOut.permutationCount >= 1 THEN "fit" ELSE "ensurefailed"
    /\ UNCHANGED <<dsIn, dsOut, dsState>>
    /\ UNCHANGED outsideCreateDataSet

DataSetInit ==
    /\ LoopIdle(CHOOSE c \in Configs : TRUE)
    /\ FoldIdle
    /\ OracleIdle
    /\ PolicyIdle
    /\ SubsetIdle
    /\ CrossValidateIdle
    /\ dsIn \in DataSetInputs
    /\ dsPc = "call"
    /\ dsOut = NoDataSet
    /\ dsState = NoStateSizes

DataSetNext ==
    \/ CreateDataSetThrows
    \/ CreateDataSet
    \/ CreateStateResize
    \/ CreateStateFolds
    \/ FitChecksPermutationCount

DataSetSpec == DataSetInit /\ [][DataSetNext]_vars

(***************************************************************************)
(* An estimator on its own, its tasks registered in any order              *)
(***************************************************************************)
OracleInit ==
    /\ LoopIdle(CHOOSE c \in Configs : TRUE)
    /\ FoldIdle
    /\ DataSetIdle
    /\ PolicyIdle
    /\ SubsetIdle
    /\ CrossValidateIdle
    /\ oracleIn \in [DstModels -> 0..MaxDepth]
    /\ oracle = NoOracle
    /\ oraclePc = "tasks"
    /\ oracleOut = NoOracleOutput

OracleNext ==
    \/ OracleAddEstimationTask
    \/ OraclePointDim
    \/ OracleEstimate

EstimatorSpec == OracleInit /\ [][OracleNext]_vars

PolicyInit ==
    /\ LoopIdle(CHOOSE c \in Configs : TRUE)
    /\ FoldIdle
    /\ DataSetIdle
    /\ OracleIdle
    /\ SubsetIdle
    /\ CrossValidateIdle
    /\ policyIn \in PolicyInputs
    /\ policyPc = "call"
    /\ policyOut = 0

PolicyNext == MinEstimationSizeCall

PolicySpec == PolicyInit /\ [][PolicyNext]_vars

(***************************************************************************)
(* CalcTrainSubsets on its own, over bounded inputs                        *)
(***************************************************************************)
Groups(groupCount) == 0..(groupCount - 1)

Reversed(s) == [i \in 1..Len(s) |-> s[Len(s) + 1 - i]]

\* the groups a split assigns to test subset t, in one of two orders
AssignedTo(assignment, t, groupCount, order) ==
    LET ascending == SelectSeq([i \in 1..groupCount |-> i - 1],
                               LAMBDA g : assignment[g] = t)
    IN  IF order = "ascending" THEN ascending ELSE Reversed(ascending)

\* test subsets as a split of the groups yields them: pairwise disjoint, no
\* group twice; assignment 0 leaves a group out of every test subset
SubsetInputs ==
    UNION {UNION {{[groupCount |-> n,
                    testSubsets |-> [t \in 1..k |-> AssignedTo(a, t, n, o)]]
                   : a \in [Groups(n) -> 0..k], o \in {"ascending", "descending"}}
                  : k \in 0..MaxTestFolds}
           : n \in 0..MaxGroups}

\* lines 410-415 without the continue of lines 411-413
PushToEveryFold(indices, testFold, srcIdx) ==
    [fold \in 1..Len(indices) |-> Append(indices[fold], srcIdx)]

\* lines 410-415: the body of the ForEach callback
PushToOtherFolds(indices, testFold, srcIdx) ==
    [fold \in 1..Len(indices) |->
        IF testFold = fold THEN indices[fold] ELSE Append(indices[fold], srcIdx)]

\* lines 403-406: one empty vector per test subset; the reserve calls change
\* capacities only (groupCount - Size() does not wrap for subsets of the groups)
CalcTrainSubsetsReserve ==
    /\ subsetPc = "call"
    /\ trainSubsetIndices' = [fold \in 1..Len(subsetIn.testSubsets) |-> <<>>]
    /\ subsetAt' = [testFold |-> 1, idx |-> 1]
    /\ subsetPc' = "foreach"
    /\ UNCHANGED <<subsetIn, subsetOut>>
    /\ UNCHANGED outsideCalcTrainSubsets

\* lines 408-417: ForEach calls the callback for the next element
CalcTrainSubsetsPush ==
    /\ subsetPc = "foreach"
    /\ subsetAt.testFold <= Len(subsetIn.testSubsets)
    /\ subsetAt.idx <= Len(subsetIn.testSubsets[subsetAt.testFold])
    /\ trainSubsetIndices' =
           PushToOtherFolds(trainSubsetIndices, subsetAt.testFold,
                            subsetIn.testSubsets[subsetAt.testFold][subsetAt.idx])
    /\ subsetAt' = [subsetAt EXCEPT !.idx = @ + 1]
    /\ UNCHANGED <<subsetIn, subsetPc, subsetOut>>
    /\ UNCHANGED outsideCalcTrainSubsets

\* line 407: the ForEach of a test fold is over, ++testFold
CalcTrainSubsetsNextFold ==
    /\ subsetPc = "foreach"
    /\ subsetAt.testFold <= Len(subsetIn.testSubsets)
    /\ subsetAt.idx > Len(subsetIn.testSubsets[subsetAt.testFold])
    /\ subsetAt' = [testFold |-> subsetAt.testFold + 1, idx |-> 1]
    /\ UNCHANGED <<subsetIn, subsetPc, trainSubsetIndices, subsetOut>>
    /\ UNCHANGED outsideCalcTrainSubsets

\* lines 420-425: every vector of indices moved into the result
CalcTrainSubsetsReturn ==
    /\ subsetPc = "foreach"
    /\ subsetAt.testFold > Len(subsetIn.testSubsets)
    /\ subsetOut' = trainSubsetIndices
    /\ subsetPc' = "returned"
    /\ UNCHANGED <<subsetIn, subsetAt, trainSubsetIndices>>
    /\ UNCHANGED outsideCalcTrainSubsets

SubsetInit ==
    /\ LoopIdle(CHOOSE c \in Configs : TRUE)
    /\ FoldIdle
    /\ DataSetIdle
    /\ OracleIdle
    /\ PolicyIdle
    /\ CrossValidateIdle
    /\ subsetIn \in SubsetInputs
    /\ subsetPc = "call"
    /\ subsetAt = [testFold |-> 1, idx |-> 1]
    /\ trainSubsetIndices = <<>>
    /\ subsetOut = <<>>

SubsetNext ==
    \/ CalcTrainSubsetsReserve
    \/ CalcTrainSubsetsPush
    \/ CalcTrainSubsetsNextFold
    \/ CalcTrainSubsetsReturn

SubsetSpec == SubsetInit /\ [][SubsetNext]_vars

(***************************************************************************)
(* The batch loop of CrossValidate over its fold contexts                  *)
(***************************************************************************)
\* lines 451-453
DivisibleOrLastIteration(currentIteration, iterationsCount, period) ==
    currentIteration % period = 0 \/ currentIteration = iterationsCount - 1

\* what the trainer's history holds for a metric of the last iteration
LearnMetric(foldIdx, iter, metricIdx) == 100 * foldIdx + 10 * iter + metricIdx
TestMetric(foldIdx, iter, metricIdx) == 1000 + 100 * foldIdx + 10 * iter + metricIdx

\* TVector::resize: the first n elements kept, empty vectors added up to n
Resized(v, n) == [i \in 1..n |-> IF i <= Len(v) THEN v[i] ELSE <<>>]

\* a fold context as constructed: no iteration recorded
NoMetricValues == [MetricValuesOnTrain |-> <<>>, MetricValuesOnTest |-> <<>>,
                   recorded |-> <<>>]

\* lines 516-540: the metrics of a new iteration pushed to both histories;
\* recorded is the list of the iterations this path was taken for
RecordIteration(ctx, foldIdx, iter, in) ==
    LET calcMetrics == DivisibleOrLastIteration(iter, in.globalMaxIteration,
                                                in.metricPeriod)
        calcErrorTrackerMetric == calcMetrics \/ in.isErrorTrackerActive
        errorTrackerMetricIdx == IF calcErrorTrackerMetric THEN 0 ELSE -1
        computed == SelectSeq([i \in 1..in.metricCount |-> i - 1],
                              LAMBDA metricIdx :
                                  calcMetrics \/ metricIdx = errorTrackerMetricIdx)
        train == Resized(ctx.MetricValuesOnTrain, iter + 1)
        test == Resized(ctx.MetricValuesOnTest, iter + 1)
    IN  [MetricValuesOnTrain |->
             [train EXCEPT ![iter + 1] =
                 @ \o [k \in 1..Len(computed) |-> LearnMetric(foldIdx, iter, computed[k])]],
         MetricValuesOnTest |->
             [test EXCEPT ![iter + 1] =
                 @ \o [k \in 1..Len(computed) |-> TestMetric(foldIdx, iter, computed[k])]],
         recorded |-> Append(ctx.recorded, iter)]

\* lines 505-543 without the replay branch of lines 509-512
OnIterationWithoutReplay(ctx, foldIdx, iter, in, upToIteration) ==
    [ctx |-> RecordIteration(ctx, foldIdx, iter, in),
     returned |-> (iter + 1) < upToIteration]

\* lines 505-543: the callback TrainUpToIteration gives to TrainModel, for
\* iteration = TimeHistory.size() - 1
OnIteration(ctx, foldIdx, iter, in, upToIteration) ==
    IF iter < Len(ctx.MetricValuesOnTest)
    THEN [ctx |-> ctx, returned |-> TRUE]
    ELSE [ctx |-> RecordIteration(ctx, foldIdx, iter, in),
          returned |-> (iter + 1) < upToIteration]

CvInputs ==
    [globalMaxIteration : 1..MaxCvIterations,
     iterationsBatchSize : 1..MaxBatchSize,
     metricPeriod : {1, 2}, metricCount : {1, 2},
     isErrorTrackerActive : BOOLEAN, foldCount : 1..MaxCvFolds]

\* lines 828-838: the condition of the batch loop, batchEndIteration, and
\* the first TrainUpToIteration call of the batch
CvBatchHead ==
    /\ cvPc = "batch"
    /\ IF ~cvBatch.isNeedStop /\ cvBatch.batchStartIteration < cvIn.globalMaxIteration
       THEN /\ cvBatch' = [cvBatch EXCEPT !.batchEndIteration =
                              Min(cvBatch.batchStartIteration + cvIn.iterationsBatchSize,
                                  cvIn.globalMaxIteration)]
            /\ cvFold' = 1
            /\ trainer' = [done |-> 0, returned |-> TRUE]
            /\ cvPc' = "train"
       ELSE /\ cvPc' = "done"
            /\ UNCHANGED <<cvBatch, cvFold, trainer>>
    /\ UNCHANGED <<cvIn, foldContexts>>
    /\ UNCHANGED outsideCrossValidate

\* lines 502-553: TrainModel has finished one more iteration and calls the
\* callback; it goes on while the callback answers true and iterations are
\* left, then TrainUpToIteration returns and the next fold context is trained
TrainModelIteration ==
    /\ cvPc = "train"
    /\ LET r == OnIteration(foldContexts[cvFold], cvFold, trainer.done, cvIn,
                            cvBatch.batchEndIteration)
           finished == ~r.returned \/ trainer.done + 1 >= cvIn.globalMaxIteration
       IN  /\ foldContexts' = [foldContexts EXCEPT ![cvFold] = r.ctx]
           /\ IF ~finished
              THEN /\ trainer' = [done |-> trainer.done + 1, returned |-> r.returned]
                   /\ UNCHANGED <<cvFold, cvPc>>
              ELSE IF cvFold < cvIn.foldCount
              THEN /\ trainer' = [done |-> 0, returned |-> r.returned]
                   /\ cvFold' = cvFold + 1
                   /\ UNCHANGED cvPc
              ELSE /\ trainer' = [done |-> 0, returned |-> r.returned]
                   /\ cvPc' = "report"
                   /\ UNCHANGED cvFold
    /\ UNCHANGED <<cvIn, cvBatch>>
    /\ UNCHANGED outsideCrossValidate

\* lines 855-931: one pass of the while loop; the metrics of the iteration
\* are read from every fold context, the overfitting detector may ask to stop
CvIterationResults ==
    /\ cvPc = "report"
    /\ IF \E f \in 1..cvIn.foldCount :
             \/ Len(foldContexts[f].MetricValuesOnTrain) <= cvBatch.iteration
             \/ Len(foldContexts[f].MetricValuesOnTest) <= cvBatch.iteration
       THEN \* MetricValuesOnTrain[iteration] is read past the end
            /\ cvPc' = "outofrange"
            /\ UNCHANGED cvBatch
       ELSE \E isNeedStop \in (IF cvIn.isErrorTrackerActive THEN BOOLEAN ELSE {FALSE}) :
              LET next == cvBatch.iteration + 1
                  lastIterInBatch == isNeedStop \/ next = cvBatch.batchEndIteration
              IN  /\ cvBatch' =
                        [cvBatch EXCEPT
                            !.iteration = next,
                            !.isNeedStop = isNeedStop,
                            !.batchStartIteration =
                                IF lastIterInBatch THEN @ + cvIn.iterationsBatchSize ELSE @]
                  /\ cvPc' = IF lastIterInBatch THEN "batch" ELSE "report"
    /\ UNCHANGED <<cvIn, cvFold, trainer, foldContexts>>
    /\ UNCHANGED outsideCrossValidate

CvInit ==
    /\ LoopIdle(CHOOSE c \in Configs : TRUE)
    /\ FoldIdle
    /\ DataSetIdle
    /\ OracleIdle
    /\ PolicyIdle
    /\ SubsetIdle
    /\ cvIn \in CvInputs
    /\ cvPc = "batch"
    /\ cvBatch = [batchStartIteration |-> 0, batchEndIteration |-> 0,
                  iteration |-> 0, isNeedStop |-> FALSE]
    /\ cvFold = 1
    /\ trainer = [done |-> 0, returned |-> TRUE]
    /\ foldContexts = [f \in 1..cvIn.foldCount |-> NoMetricValues]

CvNext ==
    \/ CvBatchHead
    \/ TrainModelIteration
    \/ CvIterationResults

CvSpec == CvInit /\ [][CvNext]_vars

(***************************************************************************)
(* Properties                                                              *)
(***************************************************************************)
\* the sum of the contributions of the weak models of res to a row
RECURSIVE ModelSum(_, _)
ModelSum(res, row) ==
    IF res = <<>> THEN 0 ELSE Apply(Head(res), row) + ModelSum(Tail(res), row)

\* the estimation cursor that holds exactly the contributions of res
EstimationCursorOf(c, res) ==
    [pos \in Rows |-> Baseline(c, pos) + ModelSum(res, pos)]

\* the test cursor that holds exactly the contributions of res
TestCursorOf(c, res) ==
    [r \in TestRows |-> TestBaseline(c, r) + ModelSum(res, r)]

\* every cursor has received exactly k weak models
AllAdded(a, c, k) ==
    /\ a.Estimation = k
    /\ a.Test = (IF c.hasTest THEN k ELSE 0)
    /\ \A p \in DOMAIN a.FoldData : \A f \in DOMAIN a.FoldData[p] : a.FoldData[p][f] = k

IsPrefix(s, t) == Len(s) <= Len(t) /\ s = SubSeq(t, 1, Len(s))

\* C1: when CheckInterrupted() ends the loop, the result model holds exactly
\* the weak models of the k fully completed iterations and every cursor holds
\* exactly the contributions of k weak models: nothing of an unfinished
\* iteration is visible.
C1_InterruptKeepsCompletedIterations ==
    pc = "interrupted" =>
        /\ Len(result) = completed
        /\ AllAdded(added, cfg, completed)
        /\ cursor.Estimation = EstimationCursorOf(cfg, result)
        /\ (cfg.hasTest => testCursor = TestCursorOf(cfg, result))

\* an interruption raised inside an iteration, seen after a completed iteration
C1_Witness == pc = "interrupted" /\ completed >= 1 /\ Len(result) >= 1

\* C2: every snapshot was taken between iterations: its result model has as
\* many weak models as iterations were complete, and its cursors hold exactly
\* the contributions of those weak models.
C2_SnapshotBetweenIterations ==
    snapshot.written =>
        /\ Len(snapshot.data.progress.model) = snapshot.completed
        /\ AllAdded(snapshot.added, cfg, snapshot.completed)
        /\ snapshot.data.progress.cursor.Estimation =
               EstimationCursorOf(cfg, snapshot.data.progress.model)
        /\ (cfg.hasTest => snapshot.data.progress.testCursor =
                               TestCursorOf(cfg, snapshot.data.progress.model))

\* a snapshot written at the head of a later iteration
C2_Witness ==
    snapshot.written /\ Len(snapshot.data.progress.model) >= 1 /\ pc = "search"

\* C3: after Run restored k weak models from a snapshot and Fit continued,
\* the first k weak models of the result model are those of the uninterrupted
\* run at iteration k.
C3_ResumeKeepsFirstModels ==
    runs >= 1 =>
        /\ Len(result) >= restored
        /\ Len(uninterrupted.result) >= restored
        /\ SubSeq(result, 1, restored) = SubSeq(uninterrupted.result, 1, restored)

\* a run that restored a weak model and appended another one after it
C3_Witness == restored >= 1 /\ Len(result) > restored

\* C4 as stated: after an interruption, the model of the most recent snapshot
\* is the k-weak-model result model.
C4_SnapshotReproducesInterruptedModel ==
    (pc = "interrupted" /\ snapshot.written) =>
        snapshot.data.progress.model = result

\* C4, amended: after an interruption, the model of the most recent snapshot is
\* a prefix of the result model, and a proper prefix when the snapshot was
\* written by the interrupted run itself.
C4_SnapshotIsPrefixOfInterruptedModel ==
    (pc = "interrupted" /\ snapshot.written) =>
        /\ IsPrefix(snapshot.data.progress.model, result)
        /\ (tracker.snapshots > 0 => Len(snapshot.data.progress.model) < Len(result))

\* an interrupted run that wrote a snapshot and completed an iteration
C4_Witness ==
    pc = "interrupted" /\ snapshot.written /\ tracker.snapshots > 0 /\ Len(result) >= 1

\* C5: a run that replayed a snapshot and went on ends with the result model
\* of the uninterrupted run at the same iteration count.
C5_ReplayReachesSameModel ==
    pc = "done" =>
        /\ Len(result) <= Len(uninterrupted.result)
        /\ result = SubSeq(uninterrupted.result, 1, Len(result))

\* a finished run that restored a weak model and appended another one
C5_Witness == pc = "done" /\ restored >= 1 /\ Len(result) > restored

\* a step of Fit appends the estimation weak model at line 440 or leaves the
\* result model alone, and a completing iteration has appended exactly one
FitStepAppendsOnly ==
    pc \in {"head", "final"} \cup InIteration =>
        /\ \/ result' = result
           \/ pc = "addweak" /\ result' = Append(result, models.Estimation)
        /\ (completed' = completed + 1 => Len(result') = completed')

\* C6: inside Fit the result model only grows, by the estimation weak model of
\* the iteration at line 440; an iteration that completes has appended exactly
\* one weak model.
C6_ResultModelAppendOnly == [][FitStepAppendsOnly]_vars

\* a second weak model was appended behind the first
C6_Witness == pc = "track" /\ Len(result) >= 2

\* C7: between iterations the estimation cursor, and the test cursor when
\* there is one, equals its initial value plus the contributions of the weak
\* models of the result model, each added once.
C7_CursorsAreBaselinePlusModels ==
    pc \in {"head", "final", "done"} =>
        /\ cursor.Estimation = EstimationCursorOf(cfg, result)
        /\ (cfg.hasTest => testCursor = TestCursorOf(cfg, result))

\* two weak models with a non-zero contribution, on a baseline, with test data
C7_Witness ==
    /\ pc = "head" /\ Len(result) >= 2 /\ cfg.hasBaseline /\ cfg.hasTest
    /\ \E pos \in Rows : ModelSum(result, pos) # 0
    /\ \E r \in TestRows : ModelSum(result, r) # 0

\* C8 as stated: the structure search can pick every learn permutation
\* 0..learnPermutationCount-1.
C8_EveryLearnPermutationCanBePicked ==
    pc # "start" =>
        {PickLearnPermutation(cfg, r) : r \in RandomValues} = LearnPermutations(cfg)

\* C9 as stated: without a test data provider there is no test cursor and no
\* best-test cursor, and TrackTestErrors, the best-test-cursor copy and
\* SetBestTestCursor are never executed.
C9_NoTestPathWithoutTestData ==
    (pc # "start" /\ ~cfg.hasTest) =>
        /\ testCursor = Null
        /\ bestTestCursor = Null
        /\ tracker.trackTestErrors = 0
        /\ tracker.bestCopies = 0
        /\ tracker.setBestTestCursor = 0

\* the inputs CreateFolds accepts
ValidFoldInput(in) ==
    /\ Len(in.grouping) >= 4 * in.devCount
    /\ in.growthRate[1] > in.growthRate[2]

WholeRangeFold(in) ==
    [EstimateSamples |-> [Left |-> 0, Right |-> in.sampleCount],
     QualityEvaluateSamples |-> [Left |-> 0, Right |-> in.sampleCount]]

\* C10 as stated: in Plain mode CreateFolds ends with exactly one fold
\* (0, sampleCount) / (0, sampleCount) for every input.
C10_PlainAlwaysOneFold ==
    (foldIn.plain /\ foldPc \in {"returned", "failed"}) =>
        folds = <<WholeRangeFold(foldIn)>>

\* C10, amended: in Plain mode CreateFolds returns exactly one fold
\* (0, sampleCount) / (0, sampleCount) for every input that passes its checks
\* (at least 4 x deviceCount groups, growth rate above 1), and throws without
\* a fold otherwise.
C10_PlainOneFoldWhenValid ==
    (foldIn.plain /\ foldPc \in {"returned", "failed"}) =>
        IF ValidFoldInput(foldIn)
        THEN foldPc = "returned" /\ folds = <<WholeRangeFold(foldIn)>>
        ELSE foldPc = "failed" /\ folds = <<>>

\* a Plain call on grouped rows that returned
C10_Witness ==
    /\ foldIn.plain /\ foldPc = "returned"
    /\ Len(foldIn.grouping) < foldIn.sampleCount /\ foldIn.sampleCount > 4


(***************************************************************************)
(* The folds of CreateFolds                                                *)
(***************************************************************************)
LastFold == folds[Len(folds)]

OrderedCallReturned == foldPc = "returned" /\ ~foldIn.plain

\* C11: in ordered mode the last fold CreateFolds returns has its evaluate
\* range end exactly at sampleCount: all samples are covered, none beyond
C11_LastFoldCoversAllSamples ==
    OrderedCallReturned => LastFold.QualityEvaluateSamples.Right = foldIn.sampleCount

C11_Witness ==
    /\ OrderedCallReturned
    /\ Len(folds) >= 3
    /\ folds[1].QualityEvaluateSamples.Right < foldIn.sampleCount
    /\ LastFold.QualityEvaluateSamples.Right = foldIn.sampleCount

\* C12: in ordered mode the evaluate upper bound strictly increases from each
\* fold to the next, for every growth rate above 1 and every minimum
\* estimation size, so that the fold-building loop terminates
C12_EvaluateRightStrictlyIncreases ==
    (foldPc \in {"loop", "returned"} /\ ~foldIn.plain) =>
        \A i \in 1..(Len(folds) - 1) :
            folds[i + 1].QualityEvaluateSamples.Right > folds[i].QualityEvaluateSamples.Right

\* C13: every fold has EstimateSamples.Left = 0 and EstimateSamples.Right <=
\* QualityEvaluateSamples.Right <= sampleCount; the next fold estimates on
\* (0, previous evaluate right) and evaluates from the previous evaluate right
C13_FoldRangesChain ==
    foldPc \in {"loop", "returned"} =>
        /\ \A i \in 1..Len(folds) :
              /\ folds[i].EstimateSamples.Left = 0
              /\ folds[i].EstimateSamples.Right <= folds[i].QualityEvaluateSamples.Right
              /\ folds[i].QualityEvaluateSamples.Right <= foldIn.sampleCount
        /\ \A i \in 1..(Len(folds) - 1) :
              /\ folds[i + 1].EstimateSamples =
                     TSlice(0, folds[i].QualityEvaluateSamples.Right)
              /\ folds[i + 1].QualityEvaluateSamples.Left =
                     folds[i].QualityEvaluateSamples.Right

C13_Witness ==
    /\ OrderedCallReturned
    /\ Len(folds) >= 2
    /\ folds[1].EstimateSamples.Right < folds[1].QualityEvaluateSamples.Right
    /\ folds[2].EstimateSamples.Right < folds[2].QualityEvaluateSamples.Right

HasGroups(in) == \E i \in 1..Len(in.grouping) : in.grouping[i] > 1

\* C14: with grouped data the estimate end, the evaluate start and the
\* evaluate end of every fold are group offsets, so no group is split
\* between the estimate and the evaluate range of a fold
C14_FoldBoundariesAreGroupOffsets ==
    (foldPc \in {"loop", "returned"} /\ HasGroups(foldIn)) =>
        \A i \in 1..Len(folds) :
            {folds[i].EstimateSamples.Right, folds[i].QualityEvaluateSamples.Left,
             folds[i].QualityEvaluateSamples.Right} \subseteq GroupOffsets(foldIn.grouping)

C14_Witness ==
    /\ OrderedCallReturned
    /\ foldIn.grouping[1] > 1
    /\ Len(folds) >= 2
    /\ folds[1].EstimateSamples.Right > 1

\* what the three checks of CreateFolds reject
RejectedFoldInput(in) ==
    \/ in.growthRate[1] <= in.growthRate[2]
    \/ FoldMinEstimationSize(in) = 0
    \/ GetQueryCount(in.grouping) < 4 * in.devCount

\* C15: CreateFolds fails and produces no fold when the growth rate is <= 1,
\* the minimum estimation size is 0 or there are fewer than 4 x deviceCount
\* groups, in Plain and in ordered mode alike, and fails for no other input
C15_ChecksFailBeforeAnyFold ==
    foldPc \in {"loop", "returned", "failed"} =>
        /\ RejectedFoldInput(foldIn) => (foldPc = "failed" /\ folds = <<>>)
        /\ foldPc = "failed" => RejectedFoldInput(foldIn)

C15_Witness ==
    /\ foldPc = "failed"
    /\ folds = <<>>
    /\ ~foldIn.plain
    /\ foldIn.growthRate = <<1, 1>>
    /\ GetQueryCount(foldIn.grouping) >= 4 * foldIn.devCount


(***************************************************************************)
(* The permutations CreateDataSet requests                                 *)
(***************************************************************************)
\* C16: for learn data in Ordered row order exactly one permutation is
\* requested from the dataset builder whatever PermutationCount is
\* configured; for any other order the configured count is requested unchanged
C16_OrderedDataRequestsOnePermutation ==
    dsPc = "returned" =>
        /\ dsOut.built
        /\ dsIn.order = "Ordered" => dsOut.permutationCount = 1
        /\ dsIn.order # "Ordered" => dsOut.permutationCount = dsIn.permutationCount

C16_Witness ==
    /\ dsPc = "returned"
    /\ dsIn.order = "Ordered"
    /\ dsIn.permutationCount = 4
    /\ dsOut.permutationCount = 1


(***************************************************************************)
(* Estimation tasks, rescaling and the fallback of an iteration            *)
(***************************************************************************)
\* estimated, and no cursor updated yet
AfterEstimate == pc \in {"rescale", "fallback", "append"}

FoldTasksOf(p, f) ==
    {t \in estimator.tasks : ~t.estimation /\ t.permutation = p /\ t.fold = f}

EstimationTasks == {t \in estimator.tasks : t.estimation}

\* one task per (learn permutation, fold), bound to the EstimateSamples slice
\* of the fold's cursor, and no other fold task
OneTaskPerFold ==
    /\ \A p \in DOMAIN permutationFolds : \A f \in 1..Len(permutationFolds[p]) :
          /\ Cardinality(FoldTasksOf(p, f)) = 1
          /\ \A t \in FoldTasksOf(p, f) :
                /\ t.slice = permutationFolds[p][f].EstimateSamples
                /\ t.cursor = SliceView(cursor.FoldData[p][f],
                                        permutationFolds[p][f].EstimateSamples)
    /\ \A t \in estimator.tasks :
          ~t.estimation => /\ t.permutation \in DOMAIN permutationFolds
                           /\ t.fold \in 1..Len(permutationFolds[t.permutation])

\* the tasks of the estimation permutation are bound to the whole estimation cursor
EstimationTaskBinding ==
    \A t \in EstimationTasks :
        /\ t.permutation = EstimationPermutation(cfg)
        /\ t.slice = TSlice(0, NumRows)
        /\ t.cursor = cursor.Estimation

\* one Estimate call, and every cursor still as the completed iterations left it
EstimatedTogetherBeforeUpdate ==
    /\ estimator.estimateCalls = 1
    /\ added.Estimation = completed
    /\ \A p \in DOMAIN added.FoldData : \A f \in DOMAIN added.FoldData[p] :
          added.FoldData[p][f] = completed

NoAveragingPermutation(c) == c.plain /\ EstimationPermutation(c) = 0

\* C17 as stated: in every iteration one task per (learn permutation, fold) on
\* the fold's EstimateSamples slice and one task for the estimation
\* permutation on the whole estimation cursor, all estimated by one Estimate
\* call before any cursor is updated
C17_EstimationTaskInEveryIteration ==
    AfterEstimate =>
        /\ OneTaskPerFold
        /\ Cardinality(EstimationTasks) = 1
        /\ EstimationTaskBinding
        /\ EstimatedTogetherBeforeUpdate

\* C17 as amended: the task of the estimation permutation is submitted in
\* every configuration but Plain mode with a single permutation, where none is
C17_TasksPerFoldAndEstimationUnlessFallback ==
    /\ AfterEstimate =>
          /\ OneTaskPerFold
          /\ Cardinality(EstimationTasks) = (IF NoAveragingPermutation(cfg) THEN 0 ELSE 1)
          /\ EstimationTaskBinding
          /\ EstimatedTogetherBeforeUpdate
    /\ estimator.estimateCalls = 0 => estimator = NoEstimator

C17_Witness ==
    /\ pc = "append"
    /\ ~cfg.plain
    /\ cfg.permutationCount = 3
    /\ completed = 1
    /\ Cardinality(estimator.tasks) = 5

\* the models Estimate wrote, recomputed from the cursors it saw
RawModels == EstimateModels(cfg, permutationFolds, cursor, weakModelStructure)

ScaledOnce(model, raw) ==
    /\ model.structure = raw.structure
    /\ \A l \in Leaves : model.values[l] = cfg.learningRate * raw.values[l]

\* C18: when the cursors are about to be updated, every per-fold model and
\* the estimation model carry their estimated leaf values multiplied by the
\* learning rate exactly once, and the model appended to the result is that
\* scaled estimation model
C18_ModelsRescaledOnceBeforeUse ==
    /\ pc = "append" =>
          /\ \A p \in DOMAIN models.FoldData : \A f \in DOMAIN models.FoldData[p] :
                ScaledOnce(models.FoldData[p][f], RawModels.FoldData[p][f])
          /\ ScaledOnce(models.Estimation,
                        IF NoAveragingPermutation(cfg) THEN RawModels.FoldData[0][1]
                        ELSE RawModels.Estimation)
    /\ pc = "track" => result[Len(result)] = models.Estimation

C18_Witness ==
    /\ pc = "append"
    /\ ~cfg.plain
    /\ completed = 1
    /\ \E l \in Leaves : RawModels.Estimation.values[l] # 0
    /\ \E l \in Leaves : RawModels.FoldData[0][1].values[l] # 0

\* C19: in Plain mode with a single permutation no estimation task is
\* estimated and the estimation model is the fold (0,0) model, scaled once; in
\* every other configuration the estimation model is the scaled result of its
\* own estimation task on the whole estimation cursor
C19_FallbackOnlyWithoutAveragingPermutation ==
    pc = "append" =>
        IF cfg.plain /\ cfg.permutationCount = 1
        THEN /\ EstimationTasks = {}
             /\ models.Estimation = models.FoldData[0][1]
             /\ models.Estimation =
                    Rescale(EstimateTask(cfg, weakModelStructure, 0, NumRows,
                                         cursor.FoldData[0][1]), cfg.learningRate)
        ELSE /\ Cardinality(EstimationTasks) = 1
             /\ models.Estimation =
                    Rescale(EstimateTask(cfg, weakModelStructure,
                                         EstimationPermutation(cfg), NumRows,
                                         cursor.Estimation), cfg.learningRate)

C19_Witness ==
    /\ pc = "append"
    /\ cfg.plain
    /\ cfg.permutationCount = 1
    /\ \E l \in Leaves : models.Estimation.values[l] # 0

(***************************************************************************)
(* The range of the fold cursors                                           *)
(***************************************************************************)
\* every fold has its cursor, declared over (0, QualityEvaluateSamples.Right)
FoldCursorRanges ==
    /\ DOMAIN cursor.FoldData = DOMAIN permutationFolds
    /\ \A p \in DOMAIN permutationFolds :
          DOMAIN cursor.FoldData[p] = 1..Len(permutationFolds[p])
    /\ CursorSlicesMatch(permutationFolds, cursor)
    /\ pc # "failed"

\* the cursor update of an iteration adds each fold's model over the fold's
\* range of its own cursor, and the estimation model to the estimation cursor
FoldModelsAddedOverFoldRange ==
    (pc = "append" /\ pc' = "addweak") =>
        /\ \A p \in DOMAIN permutationFolds : \A f \in 1..Len(permutationFolds[p]) :
              cursor'.FoldData[p][f] =
                  [pos \in 0..(permutationFolds[p][f].QualityEvaluateSamples.Right - 1) |->
                      cursor.FoldData[p][f][pos]
                          + Apply(models.FoldData[p][f], GetPermutation(cfg, p)[pos])]
        /\ cursor'.Estimation =
              [pos \in Rows |->
                  cursor.Estimation[pos]
                      + Apply(models.Estimation,
                              GetPermutation(cfg, EstimationPermutation(cfg))[pos])]

\* C20: at every iteration the declared range of every fold cursor is
\* (0, fold.QualityEvaluateSamples.Right), the check before the cursor update
\* never fails, and the fold's model is added over exactly that range of its
\* own cursor
C20_FoldCursorRangeMatchesFold ==
    [](FoldCursorRanges) /\ [][FoldModelsAddedOverFoldRange]_vars

C20_Witness ==
    /\ pc = "addweak"
    /\ ~cfg.plain
    /\ restored > 0
    /\ Len(permutationFolds[0]) >= 2
    /\ added.FoldData[0][2] = 2


(***************************************************************************)
(* The best-test cursor, the end of the loop and the checks of Run         *)
(***************************************************************************)
\* a step of Fit copies the test cursor into the best-test cursor when it
\* reports a best iteration under best-cursor tracking, and no other step of
\* Fit changes the best-test cursor
BestCopyOnBestIteration ==
    /\ pc = "track" =>
          IF tracker'.bestReported > tracker.bestReported
          THEN bestTestCursor' = testCursor
          ELSE bestTestCursor' = bestTestCursor
    /\ pc \in ({"head", "final"} \cup InIteration) \ {"track"} =>
          bestTestCursor' = bestTestCursor

\* C21: the test cursor is copied into the best-test cursor at the end of an
\* iteration exactly when the iteration is reported best and best-cursor
\* tracking was requested, so the best-test cursor is the test cursor as it
\* was right after the most recent best iteration
C21_BestCursorIsTestCursorOfLastBestIteration == [][BestCopyOnBestIteration]_vars

\* C22: an iteration runs only after ShouldStop() returned false for it; once
\* it returned true no weak model is appended any more, MaybeSaveSnapshot is
\* called exactly once more, and SetBestTestCursor exactly once iff
\* best-test-cursor tracking was requested
C22_LoopEndsWithOneSnapshotAndBestCursor ==
    /\ pc \in InIteration => FALSE \in ShouldStopAnswers
    /\ pc \in {"final", "done"} => Len(result) = tracker.stoppedWith
    /\ pc = "final" => (tracker.finalSnapshotCalls = 0 /\ tracker.setBestTestCursor = 0)
    /\ pc = "done" =>
          /\ tracker.finalSnapshotCalls = 1
          /\ tracker.setBestTestCursor = (IF cfg.needBest THEN 1 ELSE 0)
    /\ pc \notin {"final", "done"} =>
          (tracker.finalSnapshotCalls = 0 /\ tracker.setBestTestCursor = 0)

C22_Witness ==
    /\ pc = "done"
    /\ cfg.needBest
    /\ result = <<>>
    /\ runs = 1
    /\ tracker.setBestTestCursor = 1

\* nothing of the training state exists yet
NothingBuilt ==
    /\ permutationFolds = <<>>
    /\ cursor = [FoldData |-> <<>>, Estimation |-> <<>>]
    /\ testCursor = Null
    /\ bestTestCursor = Null
    /\ result = <<>>
    /\ ~snapshot.written
    /\ tracker = NoTrackerCalls
    /\ iteration = 0

\* C23: Run fails before any dataset, state, cursor or model work when the
\* data provider or the progress tracker is not set, and only then
C23_RunRejectsMissingProviderOrTracker ==
    /\ (~cfg.hasDataProvider \/ ~cfg.hasProgressTracker) =>
          (pc \in {"start", "rejected"} /\ NothingBuilt)
    /\ pc = "rejected" => (~cfg.hasDataProvider \/ ~cfg.hasProgressTracker)

C23_Witness ==
    /\ pc = "rejected"
    /\ cfg.hasDataProvider
    /\ ~cfg.hasProgressTracker
    /\ NothingBuilt


JustRestored ==
    /\ pc = "head"
    /\ snapshot.written
    /\ tracker.snapshots = 0
    /\ tracker.trackLearnErrors = 0
    /\ tracker.stoppedWith = -1

\* C30: the writer emits the progress blob followed by the best-test-cursor
\* buffer exactly when a best test cursor exists, the reader loads that buffer
\* under the same condition, and a restored snapshot gives back the result
\* model, every fold cursor, the estimation cursor, the test cursor and the
\* best test cursor as they were saved
C30_SnapshotRoundTrip ==
    /\ snapshot.written =>
          /\ snapshot.data.progress =
                 [model |-> snapshot.saved.result, cursor |-> snapshot.saved.cursor,
                  testCursor |-> snapshot.saved.testCursor]
          /\ snapshot.data.buffers =
                 (IF snapshot.saved.bestTestCursor # Null
                  THEN <<snapshot.saved.bestTestCursor>> ELSE <<>>)
    /\ JustRestored =>
          /\ tracker.buffersLoaded = Len(snapshot.data.buffers)
          /\ result = snapshot.saved.result
          /\ cursor = snapshot.saved.cursor
          /\ testCursor = snapshot.saved.testCursor
          /\ bestTestCursor = snapshot.saved.bestTestCursor

C30_Witness ==
    /\ JustRestored
    /\ cfg.hasTest
    /\ cfg.needBest
    /\ Len(result) = 1
    /\ tracker.buffersLoaded = 1
    /\ bestTestCursor = testCursor
    /\ \E r \in TestRows : bestTestCursor[r] # TestBaseline(cfg, r)


(***************************************************************************)
(* The folds of large pools                                                *)
(***************************************************************************)
ThousandRows == OrderedUngrouped(1000, <<2, 1>>, 100)

\* each fold after the first learns on all rows before its evaluate range,
\* and its evaluate end is the previous end times the multiplier, capped at
\* the sample count
EvaluateEndGrowsByMultiplier ==
    \A i \in 2..Len(folds) :
        /\ folds[i].EstimateSamples = TSlice(0, folds[i - 1].QualityEvaluateSamples.Right)
        /\ folds[i].QualityEvaluateSamples =
              TSlice(folds[i - 1].QualityEvaluateSamples.Right,
                     Min(2 * folds[i - 1].QualityEvaluateSamples.Right, 1000))

\* C27 as stated: 1000 ungrouped rows, multiplier 2.0, MinFoldSize 100, one
\* device, ordered boosting: the first fold estimates on (0,100) and evaluates
\* from 100, and every following evaluate end grows by the multiplier up to 1000
C27_FirstFoldEstimatesOnMinFoldSize ==
    (foldIn = ThousandRows /\ foldPc = "returned") =>
        /\ folds[1].EstimateSamples = TSlice(0, 100)
        /\ folds[1].QualityEvaluateSamples.Left = 100
        /\ EvaluateEndGrowsByMultiplier
        /\ folds[Len(folds)].QualityEvaluateSamples.Right = 1000

\* C27 as amended: the first fold estimates on (0,20) = (0, min(MinFoldSize,
\* sampleCount / 50)) and evaluates on (20,40); the following evaluate ends
\* are 80, 160, 320, 640 and 1000
C27_FirstFoldEstimatesOnFiftiethOfPool ==
    (foldIn = ThousandRows /\ foldPc = "returned") =>
        /\ folds[1] = TFold(TSlice(0, 20), TSlice(20, 40))
        /\ EvaluateEndGrowsByMultiplier
        /\ [i \in 1..Len(folds) |-> folds[i].QualityEvaluateSamples.Right]
               = <<40, 80, 160, 320, 640, 1000>>

C27_Witness ==
    /\ foldIn = ThousandRows
    /\ foldPc = "returned"
    /\ Len(folds) = 6
    /\ folds[6] = TFold(TSlice(0, 640), TSlice(640, 1000))

\* C28: ordered-mode CreateFolds returns at most 18 folds, for every sample
\* count, MinFoldSize and growth rate above 1.0
C28_AtMostEighteenFolds ==
    (foldPc = "returned" /\ ~foldIn.plain) => Len(folds) <= 18


(***************************************************************************)
(* The indices of Fit in the state of CreateState                          *)
(***************************************************************************)
\* the number of learn permutations as the claim gives it
LearnPermutationCountStated ==
    IF cfg.permutationCount = 1 THEN 1 ELSE cfg.permutationCount - 1

\* one row per learn permutation, one entry per fold of the permutation
OneEntryPerFold(storage) ==
    /\ DOMAIN storage = 0..(LearnPermutationCountStated - 1)
    /\ \A p \in DOMAIN storage :
          DOMAIN storage[p] = 1..Len(permutationFolds[p])

\* C35: once CreateState has built the state, the structure-search
\* permutation id is below learnPermutationCount and is not the estimation
\* permutation when there is more than one permutation; permutationFolds, the
\* per-fold cursors and the per-fold weak models have learnPermutationCount
\* rows with one entry per fold, learnPermutationCount being permutationCount
\* - 1, or 1 for a single permutation, in CreateState and in Fit alike
C35_FitIndicesInRange ==
    pc \notin {"start", "rejected"} =>
        /\ LearnPermutationCount(cfg) = LearnPermutationCountStated
        /\ StateLearnPermutationCount(cfg.permutationCount)
               = UI32(LearnPermutationCount(cfg))
        /\ StateEstimationPermutation(cfg.permutationCount)
               = UI32(EstimationPermutation(cfg))
        /\ learnPermutationId \in 0..(LearnPermutationCountStated - 1)
        /\ cfg.permutationCount > 1 => learnPermutationId # cfg.permutationCount - 1
        /\ DOMAIN permutationFolds = 0..(LearnPermutationCountStated - 1)
        /\ \A p \in DOMAIN permutationFolds : Len(permutationFolds[p]) >= 1
        /\ OneEntryPerFold(cursor.FoldData)
        /\ pc \in {"rescale", "fallback", "append", "addweak", "track"} =>
              OneEntryPerFold(models.FoldData)

\* three permutations, ordered boosting: the models of an iteration cover two
\* learn permutations of three folds each
C35_Witness ==
    /\ pc = "append"
    /\ cfg.permutationCount = 3
    /\ ~cfg.plain
    /\ learnPermutationId < 2
    /\ DOMAIN models.FoldData = 0..1
    /\ Len(permutationFolds[1]) >= 2
    /\ DOMAIN models.FoldData[1] = 1..Len(permutationFolds[1])
    /\ DOMAIN cursor.FoldData[1] = 1..Len(permutationFolds[1])

(***************************************************************************)
(* The metric histories of a fold context                                  *)
(***************************************************************************)
\* the iterations 0..n-1, each once, in order
IterationsBelow(n) == [i \in 1..n |-> i - 1]

HistoriesOfEqualLength(contexts) ==
    \A f \in DOMAIN contexts :
        Len(contexts[f].MetricValuesOnTrain) = Len(contexts[f].MetricValuesOnTest)

\* C38: a call of the callback of TrainUpToIteration for an iteration already
\* recorded leaves both histories as they are and answers true; for a new
\* iteration it extends both histories to iteration + 1 entries, the earlier
\* entries kept, and answers true iff iteration + 1 < upToIteration. The two
\* histories of a fold context have equal length at any time, and once every
\* fold context is trained up to the batch end B, each holds B entries and has
\* recorded every iteration below B exactly once
C38_CallbackReplaysOrRecordsOnce ==
    [][/\ HistoriesOfEqualLength(foldContexts)
       /\ HistoriesOfEqualLength(foldContexts')
       /\ cvPc = "train" =>
             LET iter == trainer.done
                 before == foldContexts[cvFold]
                 after == foldContexts'[cvFold]
             IN  /\ \A f \in DOMAIN foldContexts :
                       f # cvFold => foldContexts'[f] = foldContexts[f]
                 /\ IF iter < Len(before.MetricValuesOnTest)
                    THEN /\ after.MetricValuesOnTrain = before.MetricValuesOnTrain
                         /\ after.MetricValuesOnTest = before.MetricValuesOnTest
                         /\ after.recorded = before.recorded
                         /\ trainer'.returned = TRUE
                    ELSE /\ Len(after.MetricValuesOnTrain) = iter + 1
                         /\ Len(after.MetricValuesOnTest) = iter + 1
                         /\ \A i \in 1..Len(before.MetricValuesOnTest) :
                               /\ after.MetricValuesOnTrain[i] = before.MetricValuesOnTrain[i]
                               /\ after.MetricValuesOnTest[i] = before.MetricValuesOnTest[i]
                         /\ trainer'.returned = (iter + 1 < cvBatch.batchEndIteration)
       /\ cvPc' = "report" =>
             \A f \in DOMAIN foldContexts' :
                 /\ Len(foldContexts'[f].MetricValuesOnTest) = cvBatch'.batchEndIteration
                 /\ foldContexts'[f].recorded = IterationsBelow(cvBatch'.batchEndIteration)
      ]_vars

\* the second batch of two iterations: the second fold context has replayed
\* iterations 0 and 1 and recorded iterations 2 and 3
C38_Witness ==
    /\ cvPc = "report"
    /\ cvIn.foldCount = 2
    /\ cvBatch.batchStartIteration = 2
    /\ cvBatch.batchEndIteration = 4
    /\ Len(foldContexts[2].MetricValuesOnTrain) = 4
    /\ Len(foldContexts[2].MetricValuesOnTest) = 4
    /\ foldContexts[2].recorded = <<0, 1, 2, 3>>

(***************************************************************************)
(* The train subsets of a split                                            *)
(***************************************************************************)
\* how often a source index occurs in a subset
Occurrences(subset, g) == Cardinality({i \in 1..Len(subset) : subset[i] = g})

SubsetMembers(subset) == {subset[i] : i \in 1..Len(subset)}

\* every group is in exactly one test subset
TestSubsetsPartitionGroups ==
    \A g \in Groups(subsetIn.groupCount) :
        Cardinality({t \in 1..Len(subsetIn.testSubsets) :
                        g \in SubsetMembers(subsetIn.testSubsets[t])}) = 1

\* C39: CalcTrainSubsets returns one train subset per test fold; train
\* subset f holds the source indices of the test subsets other than f, each
\* once: an index of test fold t is in every train subset but t; when the
\* test subsets partition the groups, train subset f is the complement of
\* test subset f
C39_TrainSubsetsAreOtherTestSubsets ==
    subsetPc = "returned" =>
        LET test == subsetIn.testSubsets
        IN  /\ Len(subsetOut) = Len(test)
            /\ \A f \in 1..Len(test) :
                  /\ SubsetMembers(subsetOut[f])
                        = UNION {SubsetMembers(test[t]) : t \in (1..Len(test)) \ {f}}
                  /\ \A g \in SubsetMembers(subsetOut[f]) :
                        Occurrences(subsetOut[f], g) = 1
                  /\ TestSubsetsPartitionGroups =>
                        /\ SubsetMembers(subsetOut[f])
                              = Groups(subsetIn.groupCount) \ SubsetMembers(test[f])
                        /\ Len(subsetOut[f]) = subsetIn.groupCount - Len(test[f])
            /\ \A t \in 1..Len(test) : \A g \in SubsetMembers(test[t]) :
                  \A f \in 1..Len(test) :
                      g \in SubsetMembers(subsetOut[f]) <=> f # t

\* three test subsets that partition four groups, returned with train
\* subsets of two and three groups
C39_Witness ==
    /\ subsetPc = "returned"
    /\ subsetIn.groupCount = 4
    /\ Len(subsetIn.testSubsets) = 3
    /\ TestSubsetsPartitionGroups
    /\ Len(subsetIn.testSubsets[1]) = 2
    /\ Len(subsetOut[1]) = 2
    /\ Len(subsetOut[2]) = 3
    /\ Len(subsetOut[3]) = 3

(***************************************************************************)
(* The permutation block size                                              *)
(***************************************************************************)
IsPowerOfTwo(b) == \E e \in 0..30 : b = Pow2(e)

\* b * 128 <= sampleCount with the product taken modulo 2^32: the product is
\* (b mod 2^25) * 128, and x * 128 <= n exactly when x <= n div 128
Times128AtMost(b, sampleCount) == (b % Pow2(25)) <= sampleCount \div 128

\* C37: GetPermutationBlockSize returns 1 below 50000 samples; from 50000
\* samples on a configured size of 0 or 1 is returned unchanged, and for a
\* configured size above 1 the halving loop ends with a power of two b whose
\* 32-bit product b * 128 is at most the sample count
C37_BlockSizeIsPowerOfTwoWithinSamples ==
    dsPc = "returned" =>
        LET b == dsOut.permutationBlockSize
        IN  /\ dsIn.objectCount < 50000 => b = 1
            /\ (dsIn.objectCount >= 50000 /\ dsIn.permutationBlockSize <= 1) =>
                  b = dsIn.permutationBlockSize
            /\ (dsIn.objectCount >= 50000 /\ dsIn.permutationBlockSize > 1) =>
                  /\ IsPowerOfTwo(b)
                  /\ b <= dsIn.permutationBlockSize
                  /\ Times128AtMost(b, dsIn.objectCount)

\* 1000000 samples and a configured size of 65536: halved four times to 4096
C37_Witness ==
    /\ dsPc = "returned"
    /\ dsIn.objectCount = 1000000
    /\ dsIn.permutationBlockSize = 65536
    /\ dsOut.permutationBlockSize = 4096

\* a configured size of 2^25 + 1 is rounded to 2^25 and returned: its product
\* with 128 is 2^32, which is 0 in 32 bits
C37_WitnessWrappedProduct ==
    /\ dsPc = "returned"
    /\ dsIn.objectCount = 50000
    /\ dsIn.permutationBlockSize = Pow2(25) + 1
    /\ dsOut.permutationBlockSize = Pow2(25)

(***************************************************************************)
(* Plain boosting on a single permutation                                  *)
(***************************************************************************)
\* C36: in Plain mode with a single permutation the estimation cursor and the
\* cursor of fold (0,0) hold equal values over all rows, from the state
\* CreateState builds on and after every iteration
C36_PlainSinglePermutationCursorsEqual ==
    (pc \notin {"start", "rejected"} /\ cfg.plain /\ cfg.permutationCount = 1) =>
        /\ DOMAIN cursor.FoldData[0][1] = Rows
        /\ DOMAIN cursor.Estimation = Rows
        /\ \A pos \in Rows : cursor.Estimation[pos] = cursor.FoldData[0][1][pos]

\* two iterations done on a pool with a baseline, the cursors moved off it
C36_Witness ==
    /\ pc = "head"
    /\ cfg.plain
    /\ cfg.permutationCount = 1
    /\ cfg.hasBaseline
    /\ completed = 2
    /\ \E pos \in Rows : cursor.Estimation[pos] # Baseline(cfg, pos)
    /\ cursor.Estimation = cursor.FoldData[0][1]

(***************************************************************************)
(* No row of a fold is both estimated on and evaluated                     *)
(***************************************************************************)
\* the residuals of the rows of one leaf at the positions before the line, in
\* the order of permutation p and against the cursor of fold f
ResidualSumBefore(p, f, leaf, line) ==
    SumTo([q \in 0..(line - 1) |->
              IF Bin(weakModelStructure, GetPermutation(cfg, p)[q]) = leaf
              THEN Label(GetPermutation(cfg, p)[q]) - cursor.FoldData[p][f][q]
              ELSE 0], line)

\* C34: in ordered mode every fold has EstimateSamples.Right =
\* QualityEvaluateSamples.Left, so that no position is in both ranges, and the
\* value the cursor update adds to a row of a fold's evaluate range is the
\* scaled residual sum of the row's leaf over the positions before that range
C34_NoTargetLeakageInsideFold ==
    [][~cfg.plain =>
          \A p \in DOMAIN permutationFolds : \A f \in 1..Len(permutationFolds[p]) :
              LET fold == permutationFolds[p][f]
                  evaluated == fold.QualityEvaluateSamples.Left
                                   ..(fold.QualityEvaluateSamples.Right - 1)
                  estimated == fold.EstimateSamples.Left..(fold.EstimateSamples.Right - 1)
              IN  /\ fold.EstimateSamples.Right = fold.QualityEvaluateSamples.Left
                  /\ estimated \cap evaluated = {}
                  /\ (pc = "append" /\ pc' = "addweak") =>
                        \A pos \in evaluated :
                            cursor'.FoldData[p][f][pos] - cursor.FoldData[p][f][pos]
                              = cfg.learningRate
                                  * ResidualSumBefore(p, f,
                                        Bin(weakModelStructure, GetPermutation(cfg, p)[pos]),
                                        fold.QualityEvaluateSamples.Left)]_vars

\* the second iteration of an ordered run over three permutations has added
\* the values of its fold models, one of them over a range of two rows
C34_Witness ==
    /\ pc = "addweak"
    /\ ~cfg.plain
    /\ cfg.permutationCount = 3
    /\ completed = 1
    /\ \E p \in DOMAIN permutationFolds : \E f \in 1..Len(permutationFolds[p]) :
          /\ permutationFolds[p][f].QualityEvaluateSamples.Right
                 - permutationFolds[p][f].QualityEvaluateSamples.Left >= 2
          /\ permutationFolds[p][f].EstimateSamples.Right >= 2
          /\ \E l \in Leaves : models.FoldData[p][f].values[l] # 0

(***************************************************************************)
(* The task an AddEstimationTask call registers                            *)
(***************************************************************************)
\* a task helper over all rows for a structure of the given depth: the rows
\* in the order of their leaves, rows of one leaf in their own order, the
\* baseline of every position that of the row at the position, and the
\* offsets table with one entry per leaf and one more
TaskWellFormed(task, dst, depth) ==
    /\ Len(task.Bins) = NumRows
    /\ Len(task.Indices) = NumRows
    /\ Len(task.Baseline) = NumRows
    /\ {task.Indices[i] : i \in 1..NumRows} = 0..(NumRows - 1)
    /\ \A i \in 1..NumRows :
          /\ task.Bins[i] \in 0..(Pow2(depth) - 1)
          /\ task.Bins[i] = TaskBin(depth, task.Indices[i])
          /\ task.Baseline[i] = TaskResidual(dst, task.Indices[i])
    /\ \A i, j \in 1..NumRows :
          i < j => \/ task.Bins[i] < task.Bins[j]
                   \/ task.Bins[i] = task.Bins[j] /\ task.Indices[i] < task.Indices[j]
    /\ DOMAIN task.Offsets = 0..Pow2(depth)
    /\ Cardinality(DOMAIN task.Offsets) = Pow2(depth) + 1
    /\ \A b \in 0..(Pow2(depth) - 1) :
          \A i \in 1..NumRows :
              task.Bins[i] = b <=> (task.Offsets[b] < i /\ i <= task.Offsets[b + 1])

\* C33: a step that registers tasks (an AddEstimationTask call) registers
\* exactly one, for its destination model, and leaves the tasks before it as
\* they were; the new task has 2^depth leaves, its rows stably reordered by
\* leaf id, its baseline gathered in the order of the bins, and an offsets
\* table of 2^depth + 1 entries built from the reordered bins
C33_AddEstimationTaskRegistersOneTask ==
    [][(oracle' # oracle /\ oracle' # NoOracle) =>
          LET n == Len(oracle'.TaskHelpers)
              dst == oracle'.WriteDst[n]
          IN  /\ n = Len(oracle.TaskHelpers) + 1
              /\ Len(oracle'.WriteDst) = n
              /\ Len(oracle'.TaskSlices) = n
              /\ \A i \in 1..(n - 1) :
                    /\ oracle'.TaskHelpers[i] = oracle.TaskHelpers[i]
                    /\ oracle'.WriteDst[i] = oracle.WriteDst[i]
                    /\ oracle'.TaskSlices[i] = oracle.TaskSlices[i]
              /\ dst \in DstModels \ EverRegistered
              /\ oracle'.TaskSlices[n].Right - oracle'.TaskSlices[n].Left
                     = Pow2(oracleIn[dst])
              /\ TaskWellFormed(oracle'.TaskHelpers[n], dst, oracleIn[dst])]_vars

\* a second task, of depth 1: rows 0 and 2 in leaf 0 before the rows of leaf 1
C33_Witness ==
    /\ Len(oracle.TaskHelpers) = 2
    /\ oracleIn[oracle.WriteDst[2]] = 1
    /\ oracle.TaskHelpers[2].Indices[1] = 0
    /\ oracle.TaskHelpers[2].Indices[2] = 2
    /\ oracle.TaskHelpers[2].Bins[2] = 0
    /\ oracle.TaskHelpers[2].Bins[NumRows] = 1
    /\ oracle.TaskHelpers[2].Baseline[2] = TaskResidual(oracle.WriteDst[2], 2)
    /\ oracle.TaskHelpers[2].Offsets[1] > 1

(***************************************************************************)
(* The estimate size of the first fold                                     *)
(***************************************************************************)
\* the smallest group boundary at or after the line, the end of the data when
\* no boundary is
RoundedUpToGroup(grouping, line) ==
    LET offsets == GroupOffsets(grouping)
        after == {o \in offsets : o >= line}
    IN  IF after = {} THEN SumSeq(grouping)
        ELSE CHOOSE o \in after : \A p \in after : o <= p

\* the number of whole groups in the rows before the line
GroupsBefore(grouping, line) ==
    Cardinality({i \in 1..Len(grouping) : GetQueryOffset(grouping, i) <= line})

DeviceGroups(in) == Min(16 * in.devCount, Len(in.grouping) \div 2)

\* C32: the first fold estimates on the policy size rounded up to the next
\* group boundary when there is one device; with more devices on the maximum
\* of that and the offset of group min(16 * devCount, groupCount / 2), so that
\* the first fold holds at least that many groups
C32_FirstFoldEstimateSize ==
    (foldPc \in {"loop", "returned"} /\ ~foldIn.plain) =>
        LET right == folds[1].EstimateSamples.Right
            rounded == RoundedUpToGroup(foldIn.grouping,
                           MinEstimationSize(foldIn.sampleCount, foldIn.minFoldSize))
        IN  /\ folds[1].EstimateSamples.Left = 0
            /\ foldIn.devCount = 1 => right = rounded
            /\ foldIn.devCount > 1 =>
                  /\ right = Max(rounded, GetQueryOffset(foldIn.grouping, DeviceGroups(foldIn)))
                  /\ GroupsBefore(foldIn.grouping, right) >= DeviceGroups(foldIn)

\* two devices, 100 groups: 16 * devCount = 32 groups decide, not the policy
C32_Witness ==
    /\ foldPc = "returned"
    /\ foldIn = TwoDevicePool
    /\ DeviceGroups(foldIn) = 32
    /\ folds[1].EstimateSamples = TSlice(0, 32)

\* two devices, 8 groups: groupCount / 2 = 4 groups decide
C32_WitnessHalfOfGroups ==
    /\ foldPc = "returned"
    /\ ~foldIn.plain
    /\ foldIn.devCount = 2
    /\ Len(foldIn.grouping) = 8
    /\ folds[1].EstimateSamples = TSlice(0, 4)

(***************************************************************************)
(* A data set without permutations                                         *)
(***************************************************************************)
\* C29: a data set with zero permutations ends in the failed permutationCount
\* >= 1 check of Fit, and until then no per-permutation storage is sized from
\* the count: PermutationsCount() - 1 is not used
C29_ZeroPermutationsEndInFitCheck ==
    (dsOut.built /\ dsOut.permutationCount = 0) =>
        /\ dsPc \in {"returned", "state", "ensurefailed"}
        /\ dsState = NoStateSizes


(***************************************************************************)
(* The dimension of the point and the order of the tasks                   *)
(***************************************************************************)
\* the leaf counts of the destination models in ds, summed
RECURSIVE LeafCountSum(_)
LeafCountSum(ds) ==
    IF ds = <<>> THEN 0 ELSE Pow2(oracleIn[Head(ds)]) + LeafCountSum(Tail(ds))

\* the leaf slices follow each other from 0, each as long as its task has leaves
SlicesConsecutive ==
    \A i \in 1..Len(oracle.TaskSlices) :
        /\ oracle.TaskSlices[i].Left =
              (IF i = 1 THEN 0 ELSE oracle.TaskSlices[i - 1].Right)
        /\ oracle.TaskSlices[i].Right - oracle.TaskSlices[i].Left =
              Pow2(oracleIn[oracle.WriteDst[i]])

\* C24: PointDim() fails when no estimation task is registered; with at least
\* one task it is the sum of the leaf counts 2^depth of the registered tasks,
\* whose leaf slices are consecutive and do not overlap
C24_PointDimIsSumOfLeafCounts ==
    /\ oracleOut.pointDim.called =>
          /\ oracleOut.pointDim.failed <=> oracleOut.pointDim.tasks = <<>>
          /\ ~oracleOut.pointDim.failed =>
                oracleOut.pointDim.value = LeafCountSum(oracleOut.pointDim.tasks)
    /\ SlicesConsecutive
    /\ Len(oracle.TaskSlices) = Len(oracle.TaskHelpers)
    /\ Len(oracle.WriteDst) = Len(oracle.TaskHelpers)

C24_Witness ==
    /\ oracleOut.pointDim.called
    /\ Len(oracleOut.pointDim.tasks) = 3
    /\ oracleOut.pointDim.tasks[1] = 2
    /\ oracleIn[1] = 0 /\ oracleIn[2] = 1 /\ oracleIn[3] = 2
    /\ oracleOut.pointDim.value = 7

\* the leaf values of the task of destination model dst, from its rows alone
LeafValuesOfTask(dst) ==
    [l \in 0..(Pow2(oracleIn[dst]) - 1) |->
        SumTo([r \in Rows |-> IF TaskBin(oracleIn[dst], r) = l
                              THEN TaskResidual(dst, r) ELSE 0], NumRows)]

\* C25: whatever the order in which the tasks of one Estimate call were
\* submitted, every task's destination model receives the leaf values of its
\* own task, so two orders of the same tasks write the same values
C25_EstimateIsOrderInvariant ==
    /\ \A i \in 1..Len(oracleOut.estimated) :
          oracleOut.models[oracleOut.estimated[i]] =
              LeafValuesOfTask(oracleOut.estimated[i])
    /\ \A d \in DstModels :
          oracleOut.models[d] # Null =>
              \E i \in 1..Len(oracleOut.estimated) : oracleOut.estimated[i] = d

C25_Witness ==
    /\ oracleOut.estimated = <<3, 1, 2>>
    /\ oracle = NoOracle
    /\ oracleIn[1] = 0 /\ oracleIn[2] = 1 /\ oracleIn[3] = 2
    /\ oracleOut.models[3] = LeafValuesOfTask(3)
    /\ oracleOut.models[1] # oracleOut.models[2]


(***************************************************************************)
(* The policy of MinEstimationSize                                         *)
(***************************************************************************)
\* ceil(docCount / minFoldSize) is at least 2^18, that is, its IntLog2 is at
\* least 18
AtLeastEighteenHalvings(docCount, minFoldSize) ==
    docCount > (Pow2(18) - 1) * minFoldSize

\* C31: MinEstimationSize is 1 below 500 rows; from 500 rows on it is
\* ceil(docCount / 2^18) when IntLog2(ceil(docCount / MinFoldSize)) >= 18 and
\* min(MinFoldSize, docCount / 50) otherwise; it is positive
C31_MinEstimationSizePolicy ==
    policyPc = "returned" =>
        LET d == policyIn.docCount
            m == policyIn.minFoldSize
            r == policyOut
        IN  /\ d < 500 => r = 1
            /\ (d >= 500 /\ AtLeastEighteenHalvings(d, m)) =>
                  /\ (r - 1) * Pow2(18) < d
                  /\ d - 1 < (r - 1) * Pow2(18) + Pow2(18)
            /\ (d >= 500 /\ ~AtLeastEighteenHalvings(d, m)) =>
                  /\ r <= m /\ r <= d \div 50
                  /\ r = m \/ r = d \div 50
            /\ r >= 1

C31_Witness ==
    /\ policyPc = "returned"
    /\ policyIn = [docCount |-> 100 * Pow2(18), minFoldSize |-> 100]
    /\ policyOut = 100

====
